---- MODULE Spec2Model ----
(***************************************************************************)
(* Invitation lifecycle of corporate_partner_access: the invitation row    *)
(* (CatalogCourseEnrollmentAllowed), the status policy, the invitation     *)
(* service, the post-commit event signals and the accept workflow.         *)
(*                                                                         *)
(* Conventions of the model:                                               *)
(*   - a user id or a foreign key of 0 is Python's None, a timestamp of 0  *)
(*     is NULL, a status of 0 is "no status" (None / attribute unset);     *)
(*   - an email is a sequence of characters over Chars, so that strip()    *)
(*     and lower() are computed, and None (no string) is the value None;   *)
(*   - the ORM lookup `email=` is Django's exact match (case-sensitive),   *)
(*     `email__iexact=` compares lower-cased strings;                      *)
(*   - the unique and check constraints declared on the model are          *)
(*     enforced by the database, which runs READ COMMITTED.                *)
(***************************************************************************)
EXTENDS Integers, Sequences, FiniteSets, TLC

VARIABLES
    users,        \* auth_user table: id -> [email, is_staff]
    db,           \* cp_course_enrl_allowed table: id -> row
    nextId,       \* AutoField sequence of the invitation table
    held,         \* an invitation object a caller keeps between calls
    txn,          \* "none" | "open": the caller's enclosing transaction.atomic
    snapshot,     \* tables as they were when the enclosing transaction began
    pending,      \* transaction.on_commit closures queued in the open transaction
    events,       \* events delivered to the subscribers, in order
    enrollments,  \* CatalogCourseEnrollment rows
    lms,          \* external platform enrollments (user, catalog_course)
    now,          \* timezone.now()
    ret,          \* outcome of the last call
    authUser,     \* can_user_act_on_invitation: the actor argument
    authInv,      \* can_user_act_on_invitation: the invitation argument
    authOut,      \* can_user_act_on_invitation: the value returned
    pc,           \* concurrent create: position of each request
    loc,          \* concurrent create: locals of each request
    rules,        \* CorporatePartnerCatalogEmailRegex rows
    roster,       \* CorporatePartnerCatalogLearner rows
    regexCache,   \* lru_cache of compiled_email_regexes_for_catalog, one per worker
    allowedCache  \* Django cache: allowed course ids by cache key

mainVars == <<users, db, nextId, held, txn, snapshot, pending, events,
              enrollments, lms, now, ret>>
authVars == <<authUser, authInv, authOut>>
raceVars == <<pc, loc>>
catVars == <<rules, roster, regexCache, allowedCache>>
vars == <<mainVars, authVars, raceVars, catVars>>

----------------------------------------------------------------------------
(* Bounds of the model *)

MaxTime == 2
MaxInv == 2
MaxSaves == 3
MaxCalls == 2

(* Status enum *)
SENT == 10
ACCEPTED == 20
DECLINED == 30
Statuses == {SENT, ACCEPTED, DECLINED}

----------------------------------------------------------------------------
(* Strings *)

None == <<"None">>
Chars == {"a", "b", "A", "B", " "}

Falsy(v) == v = None \/ v = <<>>
Truthy(v) == ~Falsy(v)

LowerChar(c) ==
    CASE c = "A" -> "a" [] c = "B" -> "b" [] c = "T" -> "t" [] c = "Y" -> "y" [] OTHER -> c
Lower(s) == [i \in 1..Len(s) |-> LowerChar(s[i])]

RECURSIVE LStrip(_)
LStrip(s) == IF s # <<>> /\ Head(s) = " " THEN LStrip(Tail(s)) ELSE s

RECURSIVE RStrip(_)
RStrip(s) == IF s # <<>> /\ s[Len(s)] = " " THEN RStrip(SubSeq(s, 1, Len(s) - 1)) ELSE s

Strip(s) == RStrip(LStrip(s))

normalize_email(value) == IF Falsy(value) THEN None ELSE Lower(Strip(value))

IExact(a, b) == a # None /\ b # None /\ Lower(a) = Lower(b)

----------------------------------------------------------------------------
(* policies/invitations.py *)

compute_status_timestamps(invitation, new_status, t) ==
    IF new_status = ACCEPTED
    THEN [accepted_at |-> IF invitation.accepted_at # 0 THEN invitation.accepted_at ELSE t,
          declined_at |-> 0,
          touch_status_changed_at |-> invitation.status # new_status]
    ELSE IF new_status = DECLINED
    THEN [accepted_at |-> 0,
          declined_at |-> IF invitation.declined_at # 0 THEN invitation.declined_at ELSE t,
          touch_status_changed_at |-> invitation.status # new_status]
    ELSE [accepted_at |-> 0,
          declined_at |-> 0,
          touch_status_changed_at |-> invitation.status # new_status]

can_user_act_on_invitationNoBoundCheck(user, invitation) ==
    IF user.is_staff \/ user.is_superuser THEN TRUE
    ELSE LET inv_email == normalize_email(invitation.invite_email)
             usr_email == normalize_email(user.email)
         IN  Truthy(inv_email) /\ Truthy(usr_email) /\ inv_email = usr_email

can_user_act_on_invitation(user, invitation) ==
    IF user.is_staff \/ user.is_superuser THEN TRUE
    ELSE IF invitation.user # 0 THEN invitation.user = user.id
    ELSE LET inv_email == normalize_email(invitation.invite_email)
             usr_email == normalize_email(user.email)
         IN  Truthy(inv_email) /\ Truthy(usr_email) /\ inv_email = usr_email

----------------------------------------------------------------------------
(* models.py: CatalogCourseEnrollmentAllowed *)

Users == {1, 2}
CatalogCourses == {1}

NoInstance ==
    [id |-> 0, cc |-> 0, user |-> 0, status |-> 0, invite_email |-> None,
     status_changed_at |-> 0, accepted_at |-> 0,
     declined_at |-> 0, old_status |-> 0]

RowOf(inst) ==
    [cc |-> inst.cc, user |-> inst.user, status |-> inst.status,
     invite_email |-> inst.invite_email,
     status_changed_at |-> inst.status_changed_at,
     accepted_at |-> inst.accepted_at, declined_at |-> inst.declined_at]

(* An object loaded from the table: no _old_status attribute yet. *)
InstanceOf(d, i) ==
    [id |-> i, cc |-> d[i].cc, user |-> d[i].user, status |-> d[i].status,
     invite_email |-> d[i].invite_email,
     status_changed_at |-> d[i].status_changed_at,
     accepted_at |-> d[i].accepted_at, declined_at |-> d[i].declined_at,
     old_status |-> 0]

cpcea_unique_course_user(d, i, r) ==
    r.user = 0 \/
    \A j \in DOMAIN d \ {i} : ~(d[j].cc = r.cc /\ d[j].user = r.user)

cpcea_unique_course_invite_email_ci(d, i, r) ==
    r.invite_email = None \/
    \A j \in DOMAIN d \ {i} :
        ~(d[j].cc = r.cc /\ d[j].invite_email # None
          /\ Lower(d[j].invite_email) = Lower(r.invite_email))

cpcea_user_or_email_required(r) == r.user # 0 \/ r.invite_email # None

cpcea_status_timestamp_consistencyOff(r) == TRUE

cpcea_status_timestamp_consistency(r) ==
    \/ (r.status = 10 /\ r.accepted_at = 0 /\ r.declined_at = 0)
    \/ (r.status = 20 /\ r.accepted_at # 0 /\ r.declined_at = 0)
    \/ (r.status = 30 /\ r.declined_at # 0 /\ r.accepted_at = 0)

ConstraintsHold(d, i, r) ==
    /\ cpcea_unique_course_user(d, i, r)
    /\ cpcea_unique_course_invite_email_ci(d, i, r)
    /\ cpcea_user_or_email_required(r)
    /\ cpcea_status_timestamp_consistency(r)

(* signals.py: the pre_save receiver stashes the status the table holds. *)
cea_stash_previous_status(inst, d) ==
    IF inst.id # 0
    THEN [inst EXCEPT !.old_status = IF inst.id \in DOMAIN d THEN d[inst.id].status ELSE 0]
    ELSE inst

(* The part of save() that runs before super().save(): the desired timestamps
   and the set of fields added to update_fields. *)
SaveOldStatus(inst, d) ==
    IF inst.old_status # 0 THEN inst.old_status
    ELSE IF inst.id # 0 /\ inst.id \in DOMAIN d THEN d[inst.id].status
    ELSE 0

SaveDesired(inst, t) ==
    IF inst.status = ACCEPTED
    THEN [accepted_at |-> IF inst.accepted_at # 0 THEN inst.accepted_at ELSE t,
          declined_at |-> 0]
    ELSE IF inst.status = DECLINED
    THEN [accepted_at |-> 0,
          declined_at |-> IF inst.declined_at # 0 THEN inst.declined_at ELSE t]
    ELSE [accepted_at |-> 0, declined_at |-> 0]

SaveTouched(inst, d, t) ==
    LET desired == SaveDesired(inst, t)
        old_status == SaveOldStatus(inst, d)
    IN  {f \in {"accepted_at"} : inst.accepted_at # desired.accepted_at}
        \cup {f \in {"declined_at"} : inst.declined_at # desired.declined_at}
        \cup {f \in {"status_changed_at"} : old_status # 0 /\ old_status # inst.status}

(* Model.save(update_fields=uf) on an object with a primary key: the UPDATE
   writes exactly the named fields; status_changed_at is auto_now, so it is
   set to now when (and only when) it is among them. *)
UpdatedRow(r, inst, uf, t) ==
    [cc |-> r.cc,
     user |-> IF "user" \in uf THEN inst.user ELSE r.user,
     status |-> IF "status" \in uf THEN inst.status ELSE r.status,
     invite_email |-> r.invite_email,
     status_changed_at |-> IF "status_changed_at" \in uf THEN t ELSE r.status_changed_at,
     accepted_at |-> IF "accepted_at" \in uf THEN inst.accepted_at ELSE r.accepted_at,
     declined_at |-> IF "declined_at" \in uf THEN inst.declined_at ELSE r.declined_at]

(* A closure queued by the post_save receiver. It keeps a reference to the
   object: ref = "held" while the object is the one the caller holds, and
   "own" once nothing else can change it. old and new record what the save
   saw: the status the table held before the write and the object's status. *)
Closure(ref, inst, created, old) ==
    [ref |-> ref, inst |-> IF ref = "held" THEN NoInstance ELSE inst,
     created |-> created, old |-> old, new |-> inst.status]

(* save(update_fields=update_fields) of an existing object, as a whole:
   the override, the pre_save receiver, the UPDATE with the constraints, and
   the post_save receiver. *)
save(inst, update_fields, d, t, ref) ==
    LET desired == SaveDesired(inst, t)
        uf == update_fields \cup SaveTouched(inst, d, t)
        inst1 == [inst EXCEPT !.accepted_at = desired.accepted_at,
                              !.declined_at = desired.declined_at]
        inst2 == cea_stash_previous_status(inst1, d)
        inst3 == IF "status_changed_at" \in uf
                 THEN [inst2 EXCEPT !.status_changed_at = t] ELSE inst2
        found == inst.id \in DOMAIN d
        row == IF found THEN UpdatedRow(d[inst.id], inst3, uf, t) ELSE RowOf(inst3)
        ok == found /\ ConstraintsHold(d, inst.id, row)
    IN  [ok |-> ok,
         inst |-> inst3,
         db |-> IF ok THEN [d EXCEPT ![inst.id] = row] ELSE d,
         hooks |-> IF ok THEN <<Closure(ref, inst3, FALSE, inst3.old_status)>> ELSE <<>>]

(* objects.create(...) inside get_or_create: INSERT of a new SENT row. *)
create(cc, email, user, d, id, t, ref) ==
    LET row == [cc |-> cc, user |-> user, status |-> SENT, invite_email |-> email,
                status_changed_at |-> t,
                accepted_at |-> 0, declined_at |-> 0]
        ok == ConstraintsHold(d, id, row)
        inst == [InstanceOf((id :> row), id) EXCEPT !.old_status = 0]
    IN  [ok |-> ok,
         inst |-> inst,
         db |-> IF ok THEN (d @@ (id :> row)) ELSE d,
         hooks |-> IF ok THEN <<Closure(ref, inst, TRUE, 0)>> ELSE <<>>]

----------------------------------------------------------------------------
(* services/invitations.py *)

(* get_user_model().objects.get(email=...): the users an exact match finds. *)
UsersByEmail(us, email) ==
    IF email = None THEN {} ELSE {u \in Users : us[u].email = email}

(* User.objects.filter(email__iexact=email).first(): lowest id, or None. *)
FirstUserIExact(us, email) ==
    LET m == {u \in Users : IExact(us[u].email, email)}
    IN  IF m = {} THEN 0 ELSE CHOOSE u \in m : \A v \in m : u <= v

Failed(inst, d) == [ok |-> FALSE, inst |-> inst, db |-> d, hooks |-> <<>>]

apply_statusKeepBound(invitation, new_status, update_fields, d, us, t, ref) ==
    LET changes == compute_status_timestamps(invitation, new_status, t)
        old_status == invitation.status
        found == UsersByEmail(us, invitation.invite_email)
    IN  IF invitation.user = 0 /\ Cardinality(found) # 1 THEN Failed(invitation, d)
        ELSE
        LET inv1 == IF invitation.user = 0
                    THEN [invitation EXCEPT !.user = CHOOSE u \in found : TRUE]
                    ELSE invitation
            inv2 == IF old_status # new_status
                    THEN [inv1 EXCEPT !.status = new_status] ELSE inv1
            inv3 == [inv2 EXCEPT !.accepted_at = changes.accepted_at,
                                 !.declined_at = changes.declined_at]
            touched == update_fields \cup {"user"}
                \cup (IF old_status # new_status THEN {"status", "status_changed_at"} ELSE {})
                \cup (IF invitation.accepted_at # changes.accepted_at THEN {"accepted_at"} ELSE {})
                \cup (IF invitation.declined_at # changes.declined_at THEN {"declined_at"} ELSE {})
        IN  save(inv3, touched, d, t, ref)

apply_statusOnlyFromSent(invitation, new_status, update_fields, d, us, t, ref) ==
    IF invitation.status \notin {SENT, new_status} /\ new_status # SENT
    THEN [ok |-> TRUE, inst |-> invitation, db |-> d, hooks |-> <<>>]
    ELSE
    LET changes == compute_status_timestamps(invitation, new_status, t)
        old_status == invitation.status
        found == UsersByEmail(us, invitation.invite_email)
    IN  IF Cardinality(found) # 1 THEN Failed(invitation, d)
        ELSE
        LET inv1 == [invitation EXCEPT !.user = CHOOSE u \in found : TRUE]
            inv2 == IF old_status # new_status
                    THEN [inv1 EXCEPT !.status = new_status] ELSE inv1
            inv3 == [inv2 EXCEPT !.accepted_at = changes.accepted_at,
                                 !.declined_at = changes.declined_at]
            touched == update_fields \cup {"user"}
                \cup (IF old_status # new_status THEN {"status", "status_changed_at"} ELSE {})
                \cup (IF invitation.accepted_at # changes.accepted_at THEN {"accepted_at"} ELSE {})
                \cup (IF invitation.declined_at # changes.declined_at THEN {"declined_at"} ELSE {})
        IN  save(inv3, touched, d, t, ref)

apply_status(invitation, new_status, update_fields, d, us, t, ref) ==
    LET changes == compute_status_timestamps(invitation, new_status, t)
        old_status == invitation.status
        found == UsersByEmail(us, invitation.invite_email)
    IN  IF Cardinality(found) # 1 THEN Failed(invitation, d)
        ELSE
        LET inv1 == [invitation EXCEPT !.user = CHOOSE u \in found : TRUE]
            inv2 == IF old_status # new_status
                    THEN [inv1 EXCEPT !.status = new_status] ELSE inv1
            inv3 == [inv2 EXCEPT !.accepted_at = changes.accepted_at,
                                 !.declined_at = changes.declined_at]
            touched == update_fields \cup {"user"}
                \cup (IF old_status # new_status THEN {"status", "status_changed_at"} ELSE {})
                \cup (IF invitation.accepted_at # changes.accepted_at THEN {"accepted_at"} ELSE {})
                \cup (IF invitation.declined_at # changes.declined_at THEN {"declined_at"} ELSE {})
        IN  save(inv3, touched, d, t, ref)

apply_status_as_userBindActor(invitation, acting_user, new_status, d, us, t, ref) ==
    IF acting_user.is_authenticated /\ invitation.user = 0
    THEN apply_statusKeepBound([invitation EXCEPT !.user = acting_user.id], new_status,
                               {"user"}, d, us, t, ref)
    ELSE apply_status(invitation, new_status, {}, d, us, t, ref)

apply_status_as_user(invitation, acting_user, new_status, d, us, t, ref) ==
    LET can_bind_user ==
            /\ acting_user.is_authenticated
            /\ invitation.user = 0
            /\ Truthy(normalize_email(invitation.invite_email))
            /\ Truthy(normalize_email(acting_user.email))
            /\ normalize_email(invitation.invite_email) = normalize_email(acting_user.email)
        exists_conflict ==
            \E j \in DOMAIN d \ {invitation.id} :
                d[j].cc = invitation.cc /\ d[j].user = acting_user.id
        bind == can_bind_user /\ ~exists_conflict
        inv1 == IF bind THEN [invitation EXCEPT !.user = acting_user.id] ELSE invitation
        touched == IF bind THEN {"user"} ELSE {}
    IN  apply_status(inv1, new_status, touched, d, us, t, ref)

----------------------------------------------------------------------------
(* api/v1/serializers.py, api/v1/tasks.py: idempotent creation *)

SerializerValidateNoLower(raw) == Strip(raw)

(* CatalogCourseEnrollmentAllowedCreateSerializer.validate *)
SerializerValidate(raw) == Lower(Strip(raw))

RowsWith(d, cc, email) == {j \in DOMAIN d : d[j].cc = cc /\ d[j].invite_email = email}

(* QuerySet.get_or_create(catalog_course=cc, invite_email=email, defaults=...):
   get; on DoesNotExist create; on IntegrityError get again, else re-raise. *)
get_or_create(cc, email, user, d, id, t) ==
    LET hit == RowsWith(d, cc, email)
        made == create(cc, email, user, d, id, t, "own")
    IN  IF hit # {}
        THEN [ok |-> TRUE, created |-> FALSE, inst |-> InstanceOf(d, CHOOSE j \in hit : TRUE),
              db |-> d, hooks |-> <<>>]
        ELSE IF made.ok
        THEN [ok |-> TRUE, created |-> TRUE, inst |-> made.inst,
              db |-> made.db, hooks |-> made.hooks]
        ELSE [ok |-> FALSE, created |-> FALSE, inst |-> NoInstance, db |-> d, hooks |-> <<>>]

create_invitationFullSave(cc, email, d, us, id, t) ==
    LET user == FirstUserIExact(us, email)
        got == get_or_create(cc, email, user, d, id, t)
    IN  IF ~got.ok THEN got
        ELSE IF ~got.created /\ user # 0 /\ got.inst.user = 0
        THEN LET sv == save([got.inst EXCEPT !.user = user],
                            {"user", "status", "status_changed_at"}, d, t, "own")
             IN  [ok |-> sv.ok, created |-> FALSE, inst |-> sv.inst,
                  db |-> sv.db, hooks |-> sv.hooks]
        ELSE got

(* The body shared by the serializer's create() and one row of
   bulk_upload_invitations: user lookup, get_or_create, backfill of user. *)
create_invitation(cc, email, d, us, id, t) ==
    LET user == FirstUserIExact(us, email)
        got == get_or_create(cc, email, user, d, id, t)
    IN  IF ~got.ok THEN got
        ELSE IF ~got.created /\ user # 0 /\ got.inst.user = 0
        THEN LET sv == save([got.inst EXCEPT !.user = user], {"user"}, d, t, "own")
             IN  [ok |-> sv.ok, created |-> FALSE, inst |-> sv.inst,
                  db |-> sv.db, hooks |-> sv.hooks]
        ELSE got

----------------------------------------------------------------------------
(* signals.py, consumers.py, services/workflows.py *)

_to_event_data(kind, instance) ==
    [kind |-> kind, id |-> instance.id, catalog_course_id |-> instance.cc,
     status |-> instance.status, user_id |-> instance.user,
     accepted_at |-> instance.accepted_at, declined_at |-> instance.declined_at]

(* services/enrollments.py: get_or_create on (user_id, catalog_course_id). *)
ensure_enrollment_exists(rows, user_id, cc) ==
    IF \E e \in rows : e.user = user_id /\ e.cc = cc THEN rows
    ELSE rows \cup {[id |-> Cardinality(rows) + 1, user |-> user_id, cc |-> cc,
                     active |-> TRUE]}

(* edxapp_wrapper/student_module.py enroll_user: the keyword arguments it
   hands to the backend's enroll_user. *)
WrapperKeywords == {"user", "course_key", "mode", "check_access"}

(* edxapp_wrapper/backends/student_module_v1.py enroll_user: its keyword-only
   parameters (the default STUDENT_MODULE_BACKEND). *)
BackendParameters == {"user", "course_key", "mode"}

(* The wrapper's call of the backend: Python raises TypeError for a keyword
   that is not a parameter, before the backend's body runs; otherwise
   CourseEnrollment.enroll succeeds when the platform is available (`up`). *)
enroll_user(platform, user, course_key, up) ==
    IF ~(WrapperKeywords \subseteq BackendParameters)
    THEN [raised |-> TRUE, lms |-> platform]
    ELSE IF up THEN [raised |-> FALSE, lms |-> platform \cup {<<user, course_key>>}]
    ELSE [raised |-> TRUE, lms |-> platform]

(* services/platform_enrollment.py: looks up the user and the catalog course,
   then enrolls through the wrapper with mode None. *)
ensure_edx_platform_enrollment(platform, user_id, cc, up) ==
    enroll_user(platform, user_id, cc, up)

(* accept_invite_workflow: the local step, then the external one; `up` says
   whether the external platform is available. A user_id of None makes the
   local step raise, which ends the workflow. *)
accept_invite_workflowAtomic(st, user_id, cc, up) ==
    IF user_id = 0 \/ ~up THEN st
    ELSE [st EXCEPT !.enrollments = ensure_enrollment_exists(st.enrollments, user_id, cc),
                    !.lms = st.lms \cup {<<user_id, cc>>}]

accept_invite_workflow(st, user_id, cc, up) ==
    IF user_id = 0 THEN st
    ELSE [st EXCEPT !.enrollments = ensure_enrollment_exists(st.enrollments, user_id, cc),
                    !.lms = ensure_edx_platform_enrollment(st.lms, user_id, cc, up).lms]

(* emit_catalog_cea_events.after_commit, run at commit on the object the
   closure refers to: h is the object the caller holds. *)
after_commitUnenroll(c, st, h, up) ==
    LET instance == IF c.ref = "held" THEN h ELSE c.inst
        old == instance.old_status
        new == instance.status
    IN  IF c.created
        THEN [st EXCEPT !.events = Append(st.events, _to_event_data("CREATED", instance))]
        ELSE
        LET st1 == [st EXCEPT !.events = Append(st.events, _to_event_data("UPDATED", instance))]
        IN  IF old = 0 \/ old = new THEN st1
            ELSE IF new = ACCEPTED
            THEN accept_invite_workflow(
                    [st1 EXCEPT !.events = Append(st1.events, _to_event_data("ACCEPTED", instance))],
                    instance.user, instance.cc, up)
            ELSE IF new = DECLINED
            THEN [st1 EXCEPT !.events = Append(st1.events, _to_event_data("DECLINED", instance)),
                             !.enrollments = {e \in @ : ~(e.user = instance.user /\ e.cc = instance.cc)},
                             !.lms = @ \ {<<instance.user, instance.cc>>}]
            ELSE st1

after_commit(c, st, h, up) ==
    LET instance == IF c.ref = "held" THEN h ELSE c.inst
        old == instance.old_status
        new == instance.status
    IN  IF c.created
        THEN [st EXCEPT !.events = Append(st.events, _to_event_data("CREATED", instance))]
        ELSE
        LET st1 == [st EXCEPT !.events = Append(st.events, _to_event_data("UPDATED", instance))]
        IN  IF old = 0 \/ old = new THEN st1
            ELSE IF new = ACCEPTED
            THEN accept_invite_workflow(
                    [st1 EXCEPT !.events = Append(st1.events, _to_event_data("ACCEPTED", instance))],
                    instance.user, instance.cc, up)
            ELSE IF new = DECLINED
            THEN [st1 EXCEPT !.events = Append(st1.events, _to_event_data("DECLINED", instance))]
            ELSE st1

RECURSIVE run_and_clear_commit_hooks(_, _, _, _)
run_and_clear_commit_hooks(cs, st, h, up) ==
    IF cs = <<>> THEN st
    ELSE run_and_clear_commit_hooks(Tail(cs), after_commit(Head(cs), st, h, up), h, up)

----------------------------------------------------------------------------
(* The system: requests, admin actions, the bulk import and a caller that
   holds an invitation object, possibly inside its own transaction.atomic. *)

UserEmails(u) == IF u = 1 THEN {<<"a">>, <<"A">>, <<"b">>} ELSE {<<>>, <<"a">>}
RawEmails == {<<"a">>, <<"A", " ">>, <<"b">>, <<" ">>}

ActorOf(us, u) ==
    [id |-> u, email |-> us[u].email, is_staff |-> us[u].is_staff,
     is_superuser |-> FALSE, is_authenticated |-> TRUE]

Saved(hooks) ==
    [i \in 1..Len(hooks) |->
        [created |-> hooks[i].created, old |-> hooks[i].old, new |-> hooks[i].new]]

Ret(op, ok, id, actor, status, created, hooks) ==
    [op |-> op, ok |-> ok, id |-> id, actor |-> actor, status |-> status,
     created |-> created, saved |-> Saved(hooks), input |-> <<>>]

NoRet == Ret("none", TRUE, 0, 0, 0, FALSE, <<>>)

(* The saves whose events were delivered or wait for the commit: each save
   delivers one CREATED or one UPDATED event. The model stops saving at
   MaxSaves. *)
Saves ==
    Cardinality({k \in 1..Len(events) : events[k].kind \in {"CREATED", "UPDATED"}})
    + Len(pending)

CanSave == Saves < MaxSaves

(* transaction.on_commit(after_commit): inside the caller's transaction the
   closures wait for its commit; without one the operation's own atomic block
   is the outermost and its commit runs them at once. *)
Finish(res, h, up) ==
    /\ db' = res.db
    /\ held' = h
    /\ IF txn = "open"
       THEN /\ pending' = pending \o res.hooks
            /\ UNCHANGED <<events, enrollments, lms>>
       ELSE LET st == run_and_clear_commit_hooks(res.hooks,
                        [events |-> events, enrollments |-> enrollments, lms |-> lms], h, up)
            IN  /\ events' = st.events
                /\ enrollments' = st.enrollments
                /\ lms' = st.lms
                /\ pending' = pending
    /\ UNCHANGED <<users, txn, snapshot, now, authVars, catVars, raceVars>>

Tick ==
    /\ now < MaxTime
    /\ now' = now + 1
    /\ UNCHANGED <<users, db, nextId, held, txn, snapshot, pending, events,
                   enrollments, lms, ret, authVars, catVars, raceVars>>

(* A user edits the account's email (the platform keeps emails unique). *)
ChangeEmail(u, e) ==
    /\ txn = "none"
    /\ e # users[u].email
    /\ \A v \in Users \ {u} : ~(Truthy(e) /\ IExact(users[v].email, e))
    /\ users' = [users EXCEPT ![u].email = e]
    /\ ret' = Ret("change_email", TRUE, 0, 0, 0, FALSE, <<>>)
    /\ UNCHANGED <<db, nextId, held, txn, snapshot, pending, events,
                   enrollments, lms, now, authVars, catVars, raceVars>>

(* POST .../invites/ : CatalogCourseEnrollmentAllowedViewSet.create *)
ApiCreate(cc, raw) ==
    /\ CanSave
    /\ LET email == SerializerValidate(raw)
           res == create_invitation(cc, email, db, users, nextId, now)
       IN  IF email = <<>>
           THEN /\ ret' = [Ret("create", FALSE, 0, 0, 0, FALSE, <<>>) EXCEPT !.input = <<cc, raw>>]
                /\ UNCHANGED <<users, db, nextId, held, txn, snapshot, pending, events,
                               enrollments, lms, now, authVars, catVars, raceVars>>
           ELSE /\ (RowsWith(db, cc, email) # {} \/ nextId <= MaxInv)
                /\ nextId' = IF res.ok /\ res.created THEN nextId + 1 ELSE nextId
                /\ ret' = [Ret("create", res.ok, res.inst.id, 0, 0, res.created, res.hooks)
                             EXCEPT !.input = <<cc, raw>>]
                /\ \E up \in BOOLEAN : Finish(res, held, up)

(* One CSV row of bulk_upload_invitations (a Celery task, autocommit). *)
BulkRow(cc, raw) ==
    /\ txn = "none"
    /\ CanSave
    /\ LET raw_email == Lower(Strip(raw))
           res == create_invitation(cc, raw_email, db, users, nextId, now)
       IN  IF raw_email = <<>>
           THEN /\ ret' = [Ret("bulk", FALSE, 0, 0, 0, FALSE, <<>>) EXCEPT !.input = <<cc, raw>>]
                /\ UNCHANGED <<users, db, nextId, held, txn, snapshot, pending, events,
                               enrollments, lms, now, authVars, catVars, raceVars>>
           ELSE /\ (RowsWith(db, cc, raw_email) # {} \/ nextId <= MaxInv)
                /\ nextId' = IF res.ok /\ res.created THEN nextId + 1 ELSE nextId
                /\ ret' = [Ret("bulk", res.ok, res.inst.id, 0, 0, res.created, res.hooks)
                             EXCEPT !.input = <<cc, raw>>]
                /\ \E up \in BOOLEAN : Finish(res, held, up)

ViewMayActAlways(actor, invitation) == TRUE

(* The check the accept and decline views make before acting. *)
ViewMayAct(actor, invitation) == can_user_act_on_invitation(actor, invitation)

(* POST .../invites/{id}/accept|decline : get_object, the authorization
   check, apply_status_as_user. *)
ViewAct(u, i, status) ==
    /\ txn = "none"
    /\ CanSave
    /\ i \in DOMAIN db
    /\ LET invitation == InstanceOf(db, i)
           actor == ActorOf(users, u)
           res == apply_status_as_user(invitation, actor, status, db, users, now, "own")
       IN  IF ~ViewMayAct(actor, invitation)
           THEN /\ ret' = Ret("view", FALSE, i, u, status, FALSE, <<>>)
                /\ UNCHANGED <<users, db, nextId, held, txn, snapshot, pending, events,
                               enrollments, lms, now, authVars, catVars, raceVars>>
           ELSE /\ ret' = Ret("view", res.ok, i, u, status, FALSE, res.hooks)
                /\ UNCHANGED nextId
                /\ \E up \in BOOLEAN : Finish(res, held, up)

(* Admin actions mark_accepted / mark_declined / mark_sent on a fresh row. *)
AdminMark(i, status) ==
    /\ txn = "none"
    /\ CanSave
    /\ i \in DOMAIN db
    /\ LET res == apply_status(InstanceOf(db, i), status, {}, db, users, now, "own")
       IN  /\ ret' = Ret("admin", res.ok, i, 0, status, FALSE, res.hooks)
           /\ UNCHANGED nextId
           /\ \E up \in BOOLEAN : Finish(res, held, up)

(* A caller loads an invitation and keeps the object. Closures that refer to
   the object held before keep that object as it is now. *)
Fetch(i) ==
    /\ i \in DOMAIN db
    /\ held' = InstanceOf(db, i)
    /\ pending' = [k \in 1..Len(pending) |->
                     IF pending[k].ref = "held"
                     THEN [pending[k] EXCEPT !.ref = "own", !.inst = held]
                     ELSE pending[k]]
    /\ ret' = Ret("fetch", TRUE, i, 0, 0, FALSE, <<>>)
    /\ UNCHANGED <<users, db, nextId, txn, snapshot, events, enrollments, lms, now,
                   authVars, catVars, raceVars>>

(* InvitationService.apply_status on the object the caller holds. *)
HeldApply(status) ==
    /\ held.id # 0
    /\ CanSave
    /\ LET res == apply_status(held, status, {}, db, users, now, "held")
       IN  /\ ret' = Ret("apply_status", res.ok, held.id, 0, status, FALSE, res.hooks)
           /\ UNCHANGED nextId
           /\ \E up \in BOOLEAN : Finish(res, res.inst, up)

(* The caller's enclosing transaction.atomic block. *)
Begin ==
    /\ txn = "none"
    /\ txn' = "open"
    /\ snapshot' = db
    /\ ret' = Ret("begin", TRUE, 0, 0, 0, FALSE, <<>>)
    /\ UNCHANGED <<users, db, nextId, held, pending, events, enrollments, lms, now,
                   authVars, catVars, raceVars>>

Commit ==
    /\ txn = "open"
    /\ \E up \in BOOLEAN :
        LET st == run_and_clear_commit_hooks(pending,
                    [events |-> events, enrollments |-> enrollments, lms |-> lms], held, up)
        IN  /\ events' = st.events
            /\ enrollments' = st.enrollments
            /\ lms' = st.lms
    /\ txn' = "none"
    /\ pending' = <<>>
    /\ snapshot' = <<>>
    /\ ret' = Ret("commit", TRUE, 0, 0, 0, FALSE, <<>>)
    /\ UNCHANGED <<users, db, nextId, held, now, authVars, catVars, raceVars>>

RollbackKeepsHooks == pending

(* What a rollback leaves of the queued on_commit closures: nothing. *)
RollbackHooks == <<>>

Rollback ==
    /\ txn = "open"
    /\ db' = snapshot
    /\ txn' = "none"
    /\ pending' = RollbackHooks
    /\ snapshot' = <<>>
    /\ ret' = Ret("rollback", TRUE, 0, 0, 0, FALSE, <<>>)
    /\ UNCHANGED <<users, nextId, held, events, enrollments, lms, now, authVars, catVars, raceVars>>

IdleAuth == authUser = 0 /\ authInv = 0 /\ authOut = "idle"
IdleRace == pc = <<>> /\ loc = <<>>
IdleCat == rules = {} /\ roster = {} /\ regexCache = <<>> /\ allowedCache = <<>>

Init ==
    /\ users \in {[u \in Users |->
                    [email |-> IF u = 1 THEN <<"a">> ELSE <<>>, is_staff |-> u = 2 /\ s]]
                  : s \in BOOLEAN}
    /\ db = <<>>
    /\ nextId = 1
    /\ held = NoInstance
    /\ txn = "none"
    /\ snapshot = <<>>
    /\ pending = <<>>
    /\ events = <<>>
    /\ enrollments = {}
    /\ lms = {}
    /\ now = 1
    /\ ret = NoRet
    /\ IdleAuth
    /\ IdleCat
    /\ IdleRace

(* The request surface: the API views, the admin actions, the bulk import,
   users editing their email, time passing. *)
Next ==
    \/ Tick
    \/ \E u \in Users : \E e \in UserEmails(u) : ChangeEmail(u, e)
    \/ \E cc \in CatalogCourses, raw \in RawEmails : ApiCreate(cc, raw)
    \/ \E cc \in CatalogCourses, raw \in RawEmails : BulkRow(cc, raw)
    \/ \E u \in Users, i \in DOMAIN db, s \in {ACCEPTED, DECLINED} : ViewAct(u, i, s)
    \/ \E i \in DOMAIN db, s \in Statuses : AdminMark(i, s)

Spec == Init /\ [][Next]_vars

(* A caller of the service that keeps an invitation object between calls and
   may wrap its calls in a transaction, next to requests that change the same
   rows. *)
NextCaller ==
    \/ Tick
    \/ \E cc \in CatalogCourses, raw \in RawEmails : ApiCreate(cc, raw)
    \/ \E u \in Users, i \in DOMAIN db, s \in {ACCEPTED, DECLINED} : ViewAct(u, i, s)
    \/ \E i \in DOMAIN db, s \in Statuses : AdminMark(i, s)
    \/ \E i \in DOMAIN db : Fetch(i)
    \/ \E s \in Statuses : HeldApply(s)
    \/ Begin
    \/ Commit
    \/ Rollback

SpecCaller == Init /\ [][NextCaller]_vars

----------------------------------------------------------------------------
(* Two concurrent create calls for the same (catalog_course, email), each in
   its own transaction, statement by statement. A transaction reads the
   committed rows; an INSERT or UPDATE that meets an uncommitted write of the
   other transaction on the same unique key or row waits for it to end. *)

Procs == {1, 2}
RaceRaws == {<<"a">>, <<"A", " ">>}
Final == {"done", "failed"}

Locals(cc, raw) ==
    [cc |-> cc, raw |-> raw, email |-> SerializerValidate(raw), user |-> 0,
     obj |-> NoInstance, created |-> FALSE, wrote |-> "none",
     row |-> RowOf(NoInstance), hooks |-> <<>>, integrity_error |-> FALSE]

(* The row another transaction has written and not yet committed. *)
Uncommitted(q, kind) == pc[q] \notin Final /\ loc[q].wrote = kind

InsertBlocked(p) ==
    LET mine == RowOf(create(loc[p].cc, loc[p].email, loc[p].user, <<>>, nextId, now, "own").inst)
    IN  \E q \in Procs \ {p} :
            /\ Uncommitted(q, "insert")
            /\ LET other == (loc[q].obj.id :> loc[q].row)
               IN  ~(/\ cpcea_unique_course_user(other, 0, mine)
                     /\ cpcea_unique_course_invite_email_ci(other, 0, mine))

UpdateBlocked(p) ==
    \E q \in Procs \ {p} : Uncommitted(q, "update") /\ loc[q].obj.id = loc[p].obj.id

get_after_conflictReraise(d, cc, email) == {}

(* get_or_create after IntegrityError: the rows the second get finds. *)
get_after_conflict(d, cc, email) == RowsWith(d, cc, email)

RaceUnchanged == UNCHANGED <<users, held, txn, snapshot, pending, enrollments, lms,
                             now, ret, authVars, catVars>>

(* user = User.objects.filter(email__iexact=email).first() *)
RaceLookup(p) ==
    /\ pc[p] = "lookup"
    /\ loc' = [loc EXCEPT ![p].user = FirstUserIExact(users, loc[p].email)]
    /\ pc' = [pc EXCEPT ![p] = "get"]
    /\ UNCHANGED <<db, nextId, events>>
    /\ RaceUnchanged

(* get_or_create: the first get. *)
RaceGet(p) ==
    /\ pc[p] = "get"
    /\ LET hit == RowsWith(db, loc[p].cc, loc[p].email)
       IN  IF hit # {}
           THEN /\ loc' = [loc EXCEPT ![p].obj = InstanceOf(db, CHOOSE j \in hit : TRUE)]
                /\ pc' = [pc EXCEPT ![p] = "backfill"]
           ELSE /\ loc' = loc
                /\ pc' = [pc EXCEPT ![p] = "insert"]
    /\ UNCHANGED <<db, nextId, events>>
    /\ RaceUnchanged

(* get_or_create: create() in a savepoint; IntegrityError when a committed
   row holds one of the unique keys. *)
RaceInsert(p) ==
    /\ pc[p] = "insert"
    /\ ~InsertBlocked(p)
    /\ LET made == create(loc[p].cc, loc[p].email, loc[p].user, db, nextId, now, "own")
       IN  IF made.ok
           THEN /\ loc' = [loc EXCEPT ![p].obj = made.inst, ![p].created = TRUE,
                                      ![p].wrote = "insert",
                                      ![p].row = made.db[made.inst.id],
                                      ![p].hooks = made.hooks]
                /\ nextId' = nextId + 1
                /\ pc' = [pc EXCEPT ![p] = "commit"]
           ELSE /\ loc' = [loc EXCEPT ![p].integrity_error = TRUE]
                /\ nextId' = nextId
                /\ pc' = [pc EXCEPT ![p] = "reget"]
    /\ UNCHANGED <<db, events>>
    /\ RaceUnchanged

(* get_or_create: the get after IntegrityError, else the error is re-raised. *)
RaceReget(p) ==
    /\ pc[p] = "reget"
    /\ LET hit == get_after_conflict(db, loc[p].cc, loc[p].email)
       IN  IF hit # {}
           THEN /\ loc' = [loc EXCEPT ![p].obj = InstanceOf(db, CHOOSE j \in hit : TRUE)]
                /\ pc' = [pc EXCEPT ![p] = "backfill"]
           ELSE /\ loc' = loc
                /\ pc' = [pc EXCEPT ![p] = "failed"]
    /\ UNCHANGED <<db, nextId, events>>
    /\ RaceUnchanged

(* if not created and user and obj.user_id is None: save(update_fields=["user"]) *)
RaceBackfill(p) ==
    /\ pc[p] = "backfill"
    /\ IF ~loc[p].created /\ loc[p].user # 0 /\ loc[p].obj.user = 0
       THEN /\ ~UpdateBlocked(p)
            /\ LET sv == save([loc[p].obj EXCEPT !.user = loc[p].user], {"user"}, db, now, "own")
               IN  IF sv.ok
                   THEN /\ loc' = [loc EXCEPT ![p].obj = sv.inst, ![p].wrote = "update",
                                              ![p].row = sv.db[sv.inst.id],
                                              ![p].hooks = sv.hooks]
                        /\ pc' = [pc EXCEPT ![p] = "commit"]
                   ELSE /\ loc' = loc
                        /\ pc' = [pc EXCEPT ![p] = "failed"]
       ELSE /\ loc' = loc
            /\ pc' = [pc EXCEPT ![p] = "commit"]
    /\ UNCHANGED <<db, nextId, events>>
    /\ RaceUnchanged

(* The outermost atomic block ends: the writes become visible and the
   on_commit closures run. *)
RaceCommit(p) ==
    /\ pc[p] = "commit"
    /\ db' = IF loc[p].wrote = "none" THEN db
             ELSE (loc[p].obj.id :> loc[p].row) @@ db
    /\ \E up \in BOOLEAN :
        LET st == run_and_clear_commit_hooks(loc[p].hooks,
                    [events |-> events, enrollments |-> enrollments, lms |-> lms],
                    held, up)
        IN  events' = st.events
    /\ pc' = [pc EXCEPT ![p] = "done"]
    /\ loc' = loc
    /\ UNCHANGED nextId
    /\ RaceUnchanged

(* The table before the two calls: empty, or holding the invitation already
   (unbound, or bound to the account that owns the email), or holding another
   invitation of the course bound to user 1 under an earlier email. *)
RaceTables ==
    {<<>>}
    \cup {<<[cc |-> cc, user |-> u, status |-> SENT, invite_email |-> <<"a">>,
             status_changed_at |-> 1, accepted_at |-> 0, declined_at |-> 0]>>
          : cc \in CatalogCourses, u \in {0, 1}}
    \cup {<<[cc |-> cc, user |-> 1, status |-> SENT, invite_email |-> <<"b">>,
             status_changed_at |-> 1, accepted_at |-> 0, declined_at |-> 0]>>
          : cc \in CatalogCourses}

InitRace ==
    /\ users \in {[u \in Users |->
                    [email |-> IF u = 1 THEN e ELSE <<>>, is_staff |-> FALSE]]
                  : e \in UserEmails(1)}
    /\ db \in RaceTables
    /\ nextId = Len(db) + 1
    /\ held = NoInstance
    /\ txn = "none"
    /\ snapshot = <<>>
    /\ pending = <<>>
    /\ events = <<>>
    /\ enrollments = {}
    /\ lms = {}
    /\ now = 1
    /\ ret = NoRet
    /\ IdleAuth
    /\ IdleCat
    /\ pc = [p \in Procs |-> "lookup"]
    /\ loc \in [Procs -> {Locals(cc, raw) : cc \in CatalogCourses, raw \in RaceRaws}]

NextRace ==
    \/ \E p \in Procs : RaceLookup(p)
    \/ \E p \in Procs : RaceGet(p)
    \/ \E p \in Procs : RaceInsert(p)
    \/ \E p \in Procs : RaceReget(p)
    \/ \E p \in Procs : RaceBackfill(p)
    \/ \E p \in Procs : RaceCommit(p)

SpecRace == InitRace /\ [][NextRace]_vars

----------------------------------------------------------------------------
(* services/enrollments.py: calls of ensure_enrollment_exists, one after
   the other and concurrently, statement by statement. Each call runs in
   autocommit (the workflow runs after the commit of the request), so its
   INSERT is committed by the atomic block of get_or_create. *)

EnrIdle == [user |-> 0, cc |-> 0, obj |-> 0, created |-> FALSE, calls |-> 0,
            ncreated |-> [u \in Users |-> 0], row |-> 0]

EnrollmentsOf(rows, u, cc) == {e \in rows : e.user = u /\ e.cc = cc}

(* The unique (user, catalog_course) constraint of CatalogCourseEnrollment. *)
EnrollmentUnique(rows, u, cc) == EnrollmentsOf(rows, u, cc) = {}

ExistingEnrollmentReactivated(e) == [e EXCEPT !.active = TRUE]

(* get_or_create on a row that exists: the row is returned as it is. *)
ExistingEnrollment(e) == e

EnrUncommitted == {q \in Procs : pc[q] = "commit"}

EnrBlocked(p) ==
    \E q \in EnrUncommitted \ {p} :
        loc[q].user = loc[p].user /\ loc[q].cc = loc[p].cc

EnrUnchanged == UNCHANGED <<users, db, nextId, held, txn, snapshot, pending, events,
                            lms, now, ret, authVars, catVars>>

EnrReturn(p, e, created) ==
    /\ loc' = [loc EXCEPT ![p].obj = e.id, ![p].created = created,
                          ![p].ncreated[loc[p].user] =
                              @ + (IF created THEN 1 ELSE 0)]
    /\ pc' = [pc EXCEPT ![p] = "idle"]

(* ensure_enrollment_exists(user_id=u, catalog_course_id=cc) is called. *)
EnrCall(p, u, cc) ==
    /\ pc[p] = "idle"
    /\ loc[p].calls < MaxCalls
    /\ loc' = [loc EXCEPT ![p].user = u, ![p].cc = cc, ![p].obj = 0,
                          ![p].created = FALSE, ![p].calls = @ + 1]
    /\ pc' = [pc EXCEPT ![p] = "get"]
    /\ UNCHANGED enrollments
    /\ EnrUnchanged

(* get_or_create: the first get. *)
EnrGet(p) ==
    /\ pc[p] = "get"
    /\ LET hit == EnrollmentsOf(enrollments, loc[p].user, loc[p].cc)
       IN  IF hit # {}
           THEN LET e == CHOOSE x \in hit : TRUE
                IN  /\ enrollments' = (enrollments \ {e}) \cup {ExistingEnrollment(e)}
                    /\ EnrReturn(p, e, FALSE)
           ELSE /\ pc' = [pc EXCEPT ![p] = "insert"]
                /\ UNCHANGED <<enrollments, loc>>
    /\ EnrUnchanged

(* get_or_create: the INSERT; it waits for an uncommitted row of the same
   pair and raises IntegrityError when a committed one exists. *)
EnrInsert(p) ==
    /\ pc[p] = "insert"
    /\ ~EnrBlocked(p)
    /\ IF EnrollmentUnique(enrollments, loc[p].user, loc[p].cc)
       THEN /\ loc' = [loc EXCEPT ![p].row =
                         Cardinality(enrollments) + Cardinality(EnrUncommitted) + 1]
            /\ pc' = [pc EXCEPT ![p] = "commit"]
       ELSE /\ pc' = [pc EXCEPT ![p] = "reget"]
            /\ loc' = loc
    /\ UNCHANGED enrollments
    /\ EnrUnchanged

(* The atomic block of get_or_create ends: the new row, active by default,
   is committed and the call returns created=True. *)
EnrCommit(p) ==
    /\ pc[p] = "commit"
    /\ LET e == [id |-> loc[p].row, user |-> loc[p].user, cc |-> loc[p].cc,
                 active |-> TRUE]
       IN  /\ enrollments' = enrollments \cup {e}
           /\ EnrReturn(p, e, TRUE)
    /\ EnrUnchanged

(* After IntegrityError: the second get of get_or_create and, should it
   re-raise, the get of the except branch. *)
EnrReget(p) ==
    /\ pc[p] = "reget"
    /\ LET hit == EnrollmentsOf(enrollments, loc[p].user, loc[p].cc)
       IN  IF hit # {}
           THEN EnrReturn(p, CHOOSE x \in hit : TRUE, FALSE)
           ELSE /\ pc' = [pc EXCEPT ![p] = "failed"]
                /\ loc' = loc
    /\ UNCHANGED enrollments
    /\ EnrUnchanged

(* An administrator deactivates or reactivates an enrollment. *)
EnrAdminSetActive(e, b) ==
    /\ e \in enrollments
    /\ e.active # b
    /\ enrollments' = (enrollments \ {e}) \cup {[e EXCEPT !.active = b]}
    /\ UNCHANGED <<pc, loc>>
    /\ EnrUnchanged

IdleMainEnroll ==
    /\ users = [u \in Users |-> [email |-> <<>>, is_staff |-> FALSE]]
    /\ db = <<>>
    /\ nextId = 1
    /\ held = NoInstance
    /\ txn = "none"
    /\ snapshot = <<>>
    /\ pending = <<>>
    /\ events = <<>>
    /\ lms = {}
    /\ now = 1
    /\ ret = NoRet

InitEnroll ==
    /\ IdleMainEnroll
    /\ IdleAuth
    /\ IdleCat
    /\ enrollments \in {{}} \cup
         {{[id |-> 1, user |-> 1, cc |-> cc, active |-> a]}
            : cc \in CatalogCourses, a \in BOOLEAN}
    /\ pc = [p \in Procs |-> "idle"]
    /\ loc = [p \in Procs |-> EnrIdle]

NextEnroll ==
    \/ \E p \in Procs, u \in Users, cc \in CatalogCourses : EnrCall(p, u, cc)
    \/ \E p \in Procs : EnrGet(p)
    \/ \E p \in Procs : EnrInsert(p)
    \/ \E p \in Procs : EnrCommit(p)
    \/ \E p \in Procs : EnrReget(p)
    \/ \E e \in enrollments, b \in BOOLEAN : EnrAdminSetActive(e, b)

SpecEnroll == InitEnroll /\ [][NextEnroll]_vars

----------------------------------------------------------------------------
(* The accept workflow over the life of one invitation: the invitation
   exists (created for the account's email, bound, SENT) and is accepted,
   declined and reset by its user and by administrators; the events are
   those delivered since then. *)

InitWorkflow ==
    /\ users \in {[u \in Users |->
                    [email |-> IF u = 1 THEN <<"a">> ELSE <<>>, is_staff |-> u = 2 /\ s]]
                  : s \in BOOLEAN}
    /\ db \in {<<[cc |-> cc, user |-> 1, status |-> SENT, invite_email |-> <<"a">>,
                  status_changed_at |-> 1, accepted_at |-> 0, declined_at |-> 0]>>
               : cc \in CatalogCourses}
    /\ nextId = 2
    /\ held = NoInstance
    /\ txn = "none"
    /\ snapshot = <<>>
    /\ pending = <<>>
    /\ events = <<>>
    /\ enrollments = {}
    /\ lms = {}
    /\ now = 1
    /\ ret = NoRet
    /\ IdleAuth
    /\ IdleCat
    /\ IdleRace

NextWorkflow ==
    \/ Tick
    \/ \E u \in Users, i \in DOMAIN db, s \in {ACCEPTED, DECLINED} : ViewAct(u, i, s)
    \/ \E i \in DOMAIN db, s \in Statuses : AdminMark(i, s)

SpecWorkflow == InitWorkflow /\ [][NextWorkflow]_vars

(* The accept and decline endpoints while the external platform is available:
   CourseEnrollment.enroll would succeed whenever it is reached. *)
ViewActAvailable(u, i, status) ==
    /\ txn = "none"
    /\ CanSave
    /\ i \in DOMAIN db
    /\ LET invitation == InstanceOf(db, i)
           actor == ActorOf(users, u)
           res == apply_status_as_user(invitation, actor, status, db, users, now, "own")
       IN  IF ~ViewMayAct(actor, invitation)
           THEN /\ ret' = Ret("view", FALSE, i, u, status, FALSE, <<>>)
                /\ UNCHANGED <<users, db, nextId, held, txn, snapshot, pending, events,
                               enrollments, lms, now, authVars, catVars, raceVars>>
           ELSE /\ ret' = Ret("view", res.ok, i, u, status, FALSE, res.hooks)
                /\ UNCHANGED nextId
                /\ Finish(res, held, TRUE)

NextAvailable ==
    \/ Tick
    \/ \E u \in Users, i \in DOMAIN db, s \in {ACCEPTED, DECLINED} : ViewActAvailable(u, i, s)

SpecAvailable == InitWorkflow /\ [][NextAvailable]_vars

----------------------------------------------------------------------------
(* Requests served by two workers at once. A request's transaction is one
   step (its writes are serialized by the database); the on_commit closures
   run in the worker after the commit, as a later step. seq numbers the
   committed transactions that saved something. *)

OrdIdle == [calls |-> 0, hooks |-> <<>>, seq |-> 0]

LastSeq == LET n == {loc[q].seq : q \in Procs}
           IN  CHOOSE m \in n : \A k \in n : k <= m

OrdUnchanged == UNCHANGED <<users, held, txn, snapshot, pending, now, ret, authVars, catVars>>

(* The transaction of a request: commit when the service returned,
   rollback when it raised. *)
OrdTransaction(p, res) ==
    /\ pc[p] = "idle"
    /\ loc[p].calls < MaxCalls
    /\ IF res.ok /\ res.hooks # <<>>
       THEN /\ db' = res.db
            /\ loc' = [loc EXCEPT ![p].calls = @ + 1, ![p].hooks = res.hooks,
                                  ![p].seq = LastSeq + 1]
            /\ pc' = [pc EXCEPT ![p] = "committed"]
       ELSE /\ db' = db
            /\ loc' = [loc EXCEPT ![p].calls = @ + 1]
            /\ pc' = pc
    /\ UNCHANGED <<events, enrollments, lms>>
    /\ OrdUnchanged

(* POST .../invites/ *)
OrdCreate(p, cc, raw) ==
    /\ nextId <= MaxInv
    /\ LET res == create_invitation(cc, SerializerValidate(raw), db, users, nextId, now)
       IN  /\ OrdTransaction(p, res)
           /\ nextId' = IF res.ok /\ res.created THEN nextId + 1 ELSE nextId

(* accept, decline or mark_sent of a row by a request allowed to. *)
OrdApply(p, i, status) ==
    /\ i \in DOMAIN db
    /\ OrdTransaction(p, apply_status(InstanceOf(db, i), status, {}, db, users, now, "own"))
    /\ UNCHANGED nextId

(* The worker runs the closures of its committed transaction. *)
OrdDeliver(p) ==
    /\ pc[p] = "committed"
    /\ \E up \in BOOLEAN :
        LET st == run_and_clear_commit_hooks(loc[p].hooks,
                    [events |-> events, enrollments |-> enrollments, lms |-> lms],
                    held, up)
        IN  /\ events' = st.events
            /\ enrollments' = st.enrollments
            /\ lms' = st.lms
    /\ pc' = [pc EXCEPT ![p] = "idle"]
    /\ loc' = [loc EXCEPT ![p].hooks = <<>>]
    /\ UNCHANGED <<db, nextId>>
    /\ OrdUnchanged

InitOrder ==
    /\ users = [u \in Users |->
                  [email |-> IF u = 1 THEN <<"a">> ELSE <<>>, is_staff |-> FALSE]]
    /\ db = <<>>
    /\ nextId = 1
    /\ held = NoInstance
    /\ txn = "none"
    /\ snapshot = <<>>
    /\ pending = <<>>
    /\ events = <<>>
    /\ enrollments = {}
    /\ lms = {}
    /\ now = 1
    /\ ret = NoRet
    /\ IdleAuth
    /\ IdleCat
    /\ pc = [p \in Procs |-> "idle"]
    /\ loc = [p \in Procs |-> OrdIdle]

NextOrder ==
    \/ \E p \in Procs, cc \in CatalogCourses, raw \in RaceRaws : OrdCreate(p, cc, raw)
    \/ \E p \in Procs, i \in DOMAIN db, s \in Statuses : OrdApply(p, i, s)
    \/ \E p \in Procs : OrdDeliver(p)

SpecOrder == InitOrder /\ [][NextOrder]_vars

----------------------------------------------------------------------------
(* Eligibility: catalogs, their roster and regex rules, the per-worker cache
   of compiled rules. A compiled pattern is the sequence of its tokens; "."
   is any character, "^" and "$" are the anchors, "(" alone does not
   compile. *)

Catalogs == {1, 2}
Anonymous == 0
MaxRules == 2

(* CorporatePartnerCatalog rows: catalog 1 is private, catalog 2 public;
   courses is catalog.courses.all(). *)
CatalogTable ==
    [c \in Catalogs |->
        [id |-> c, is_public |-> (c = 2), courses |-> IF c = 1 THEN {1, 2} ELSE {2, 3}]]

(* The user object of a request: AnonymousUser or a row of auth_user. *)
UserObject(u) ==
    IF u = Anonymous
    THEN [id |-> 0, email |-> <<>>, is_staff |-> FALSE, is_superuser |-> FALSE,
          is_authenticated |-> FALSE]
    ELSE [id |-> u, email |-> users[u].email, is_staff |-> users[u].is_staff,
          is_superuser |-> users[u].is_superuser, is_authenticated |-> TRUE]

RegexError == <<"regex.error">>

(* regex.compile(pattern, flags=regex.IGNORECASE) *)
regex_compile(p) == IF \E i \in 1..Len(p) : p[i] = "(" THEN RegexError ELSE p

(* pat.fullmatch(s) from token i of the pattern and character j of s *)
RECURSIVE MatchFrom(_, _, _, _)
MatchFrom(p, i, s, j) ==
    IF i > Len(p)
    THEN j = Len(s) + 1
    ELSE CASE p[i] = "^" -> j = 1 /\ MatchFrom(p, i + 1, s, j)
           [] p[i] = "$" -> j = Len(s) + 1 /\ MatchFrom(p, i + 1, s, j)
           [] p[i] = "." -> j <= Len(s) /\ MatchFrom(p, i + 1, s, j + 1)
           [] OTHER -> /\ j <= Len(s)
                       /\ LowerChar(p[i]) = LowerChar(s[j])
                       /\ MatchFrom(p, i + 1, s, j + 1)

fullmatch(pat, s) == MatchFrom(pat, 1, s, 1)

(* str.lstrip("^") and str.rstrip("$") *)
RECURSIVE LStripCaret(_)
LStripCaret(s) == IF s # <<>> /\ Head(s) = "^" THEN LStripCaret(Tail(s)) ELSE s

RECURSIVE RStripDollar(_)
RStripDollar(s) ==
    IF s # <<>> /\ s[Len(s)] = "$" THEN RStripDollar(SubSeq(s, 1, Len(s) - 1)) ELSE s

(* CorporatePartnerCatalogEmailRegex.clean(): the pattern stored, or a
   ValidationError. *)
clean(raw) ==
    LET pattern == Strip(raw)
        anchored == <<"^">> \o RStripDollar(LStripCaret(pattern)) \o <<"$">>
    IN  IF pattern = <<>> \/ regex_compile(anchored) = RegexError
        THEN [ok |-> FALSE, regex |-> <<>>]
        ELSE [ok |-> TRUE, regex |-> anchored]

(* The body of compiled_email_regexes_for_catalog: the rules of the catalog,
   anchored and compiled, those that do not compile skipped. *)
CompileRules(rs, catalog_id) ==
    LET patterns == {r.regex : r \in {x \in rs : x.catalog = catalog_id}}
        anchored(p) == IF p # <<>> /\ (Head(p) = "^" \/ p[Len(p)] = "$")
                       THEN p
                       ELSE <<"^">> \o p \o <<"$">>
    IN  {regex_compile(anchored(p)) : p \in patterns} \ {RegexError}

(* functools.lru_cache: cache[c] is <<>> (no entry) or <<value>>. *)
EmptyCache == [c \in Catalogs |-> <<>>]

compiled_email_regexes_for_catalog(cache, rs, catalog_id) ==
    IF cache[catalog_id] # <<>>
    THEN [value |-> cache[catalog_id][1], cache |-> cache]
    ELSE LET v == CompileRules(rs, catalog_id)
         IN  [value |-> v, cache |-> [cache EXCEPT ![catalog_id] = <<v>>]]

clear_email_regex_cache(cache) == EmptyCache

email_matches_catalog(email, compiled) ==
    IF Falsy(email)
    THEN FALSE
    ELSE \E pat \in compiled : fullmatch(pat, Strip(Lower(email)))

can_user_see_catalog_courses(user, catalog, cache, rs, ro) ==
    IF user.is_staff \/ user.is_superuser THEN [value |-> TRUE, cache |-> cache]
    ELSE IF catalog.is_public THEN [value |-> TRUE, cache |-> cache]
    ELSE IF ~user.is_authenticated THEN [value |-> FALSE, cache |-> cache]
    ELSE IF \E l \in ro : l.catalog = catalog.id /\ l.user = user.id /\ l.active
         THEN [value |-> TRUE, cache |-> cache]
    ELSE LET c == compiled_email_regexes_for_catalog(cache, rs, catalog.id)
         IN  [value |-> email_matches_catalog(user.email, c.value), cache |-> c.cache]

(* CatalogAllowedCoursesService.course_runs_for_user *)
course_runs_for_user(catalog, user, cache, rs, ro) ==
    LET see == can_user_see_catalog_courses(user, catalog, cache, rs, ro)
    IN  [value |-> IF see.value THEN catalog.courses ELSE {}, cache |-> see.cache]

(* CorporatePartnerCatalog.get_course_runs for the current user *)
get_course_runs(catalog, user, cache, rs, ro) ==
    course_runs_for_user(catalog, user, cache, rs, ro)

(* What the catalog operations leave alone. *)
CatUnchanged ==
    UNCHANGED <<users, db, nextId, held, txn, snapshot, pending, events, enrollments,
                lms, now, authVars, raceVars>>

RuleIds == 1..MaxRules
RuleInputs == {<<"a">>, <<".">>, <<"^", "b">>, <<"(">>, <<" ">>}

(* post_save / post_delete of a rule in worker p: _invalidate_catalog_regex_cache
   clears the cache of the worker that served the request. *)
Invalidate(p) == regexCache' = [regexCache EXCEPT ![p] = clear_email_regex_cache(@)]

(* A rule is created (id unused) or edited (id in use) through the API or
   the admin; save() runs clean() first. *)
RuleSave(p, id, c, raw) ==
    LET cl == clean(raw)
        others == {r \in rules : r.id # id}
    IN  /\ IF cl.ok
           THEN /\ rules' = others \cup {[id |-> id, catalog |-> c, regex |-> cl.regex]}
                /\ Invalidate(p)
           ELSE UNCHANGED <<rules, regexCache>>
        /\ ret' = [op |-> "rule_save", ok |-> cl.ok, proc |-> p, catalog |-> c]
        /\ UNCHANGED <<roster, allowedCache>>
        /\ CatUnchanged

RuleDelete(p, id) ==
    /\ \E r \in rules :
         /\ r.id = id
         /\ rules' = rules \ {r}
         /\ ret' = [op |-> "rule_delete", ok |-> TRUE, proc |-> p, catalog |-> r.catalog]
    /\ Invalidate(p)
    /\ UNCHANGED <<roster, allowedCache>>
    /\ CatUnchanged

(* The roster row of (catalog, user) is created, edited or deleted. *)
LearnerSet(c, u, state) ==
    /\ roster' = {l \in roster : ~(l.catalog = c /\ l.user = u)}
                   \cup (IF state = "none"
                         THEN {}
                         ELSE {[catalog |-> c, user |-> u, active |-> (state = "active")]})
    /\ roster' # roster
    /\ ret' = [op |-> "learner", ok |-> TRUE, proc |-> 0, catalog |-> c]
    /\ UNCHANGED <<rules, regexCache, allowedCache>>
    /\ CatUnchanged

(* Worker p calls compiled_email_regexes_for_catalog(c). *)
CallCompiled(p, c) ==
    LET r == compiled_email_regexes_for_catalog(regexCache[p], rules, c)
    IN  /\ ret' = [op |-> "compiled", ok |-> TRUE, proc |-> p, catalog |-> c,
                   value |-> r.value]
        /\ regexCache' = [regexCache EXCEPT ![p] = r.cache]
        /\ UNCHANGED <<rules, roster, allowedCache>>
        /\ CatUnchanged

(* Worker p calls can_user_see_catalog_courses(user=u, catalog=c). *)
CallSee(p, u, c) ==
    LET r == can_user_see_catalog_courses(UserObject(u), CatalogTable[c], regexCache[p],
                                          rules, roster)
    IN  /\ ret' = [op |-> "see", ok |-> TRUE, proc |-> p, catalog |-> c, user |-> u,
                   value |-> r.value]
        /\ regexCache' = [regexCache EXCEPT ![p] = r.cache]
        /\ UNCHANGED <<rules, roster, allowedCache>>
        /\ CatUnchanged

(* Worker p calls course_runs_for_user(catalog=c, user=u). *)
CallRuns(p, u, c) ==
    LET r == course_runs_for_user(CatalogTable[c], UserObject(u), regexCache[p],
                                  rules, roster)
    IN  /\ ret' = [op |-> "runs", ok |-> TRUE, proc |-> p, catalog |-> c, user |-> u,
                   value |-> r.value]
        /\ regexCache' = [regexCache EXCEPT ![p] = r.cache]
        /\ UNCHANGED <<rules, roster, allowedCache>>
        /\ CatUnchanged

CatEmails == {<<"a">>, <<"A", " ">>, <<"a", "b">>, <<>>}

IdleMainCat ==
    /\ db = <<>>
    /\ nextId = 1
    /\ held = NoInstance
    /\ txn = "none"
    /\ snapshot = <<>>
    /\ pending = <<>>
    /\ events = <<>>
    /\ enrollments = {}
    /\ lms = {}
    /\ now = 1
    /\ ret = NoRet
    /\ IdleAuth
    /\ IdleRace

(* The regex cache under two workers: rules of both catalogs change, both
   workers read. *)
InitRegex ==
    /\ IdleMainCat
    /\ users = [u \in Users |-> [email |-> <<>>, is_staff |-> FALSE, is_superuser |-> FALSE]]
    /\ rules = {}
    /\ roster = {}
    /\ regexCache = [p \in Procs |-> EmptyCache]
    /\ allowedCache = <<>>

NextRegex ==
    \/ \E p \in Procs, id \in RuleIds, c \in Catalogs, raw \in RuleInputs :
         RuleSave(p, id, c, raw)
    \/ \E p \in Procs, id \in RuleIds : RuleDelete(p, id)
    \/ \E p \in Procs, c \in Catalogs : CallCompiled(p, c)

SpecRegex == InitRegex /\ [][NextRegex]_vars

(* The eligibility of a user: user 1 is a learner with some email, user 2 is
   staff or superuser; the rules and the roster of the private catalog
   change between the calls. *)
InitCatalog ==
    /\ IdleMainCat
    /\ users \in {[u \in Users |->
                     IF u = 1
                     THEN [email |-> e, is_staff |-> FALSE, is_superuser |-> FALSE]
                     ELSE [email |-> <<"b">>, is_staff |-> s, is_superuser |-> ~s]]
                  : e \in CatEmails, s \in BOOLEAN}
    /\ rules = {}
    /\ roster = {}
    /\ regexCache = [p \in Procs |-> EmptyCache]
    /\ allowedCache = <<>>

NextCatalog ==
    \/ \E p \in Procs, raw \in RuleInputs : RuleSave(p, 1, 1, raw)
    \/ \E p \in Procs : RuleDelete(p, 1)
    \/ \E state \in {"none", "active", "inactive"} : LearnerSet(1, 1, state)
    \/ \E p \in Procs, u \in {Anonymous} \cup Users, c \in Catalogs : CallSee(p, u, c)
    \/ \E p \in Procs, u \in {Anonymous} \cup Users, c \in Catalogs : CallRuns(p, u, c)

SpecCatalog == InitCatalog /\ [][NextCatalog]_vars

(* The aggregate of the allowed course ids over all catalogs, cached per user
   in the Django cache: allowedCache[key] is <<>> (no entry) or <<entry>>;
   an entry keeps, next to the ids stored, the user it was computed for. *)

CatalogSeq == <<1, 2>>

cache_keyShared(user) == "anon"

cache_key(user) == IF ~user.is_authenticated THEN "anon" ELSE ToString(user.id)

CacheKeys == {cache_key(UserObject(u)) : u \in {Anonymous} \cup Users}

(* An exception of catalog.get_course_runs() not caught. *)
catalog_failedPropagate(acc, c) == [acc EXCEPT !.raised = TRUE, !.consulted = @ \cup {c}]

(* except Exception: logger.exception(...), and the loop goes on. *)
catalog_failed(acc, c) == [acc EXCEPT !.consulted = @ \cup {c}]

(* Rows of FlexibleCatalogModel that are no CorporatePartnerCatalog:
   select_subclasses() yields them as instances of the base class. *)
PlainCatalogs == {3}

(* CourseOverview.objects.all(): course 4 is in no catalog. *)
PlatformCourses == {1, 2, 3, 4}

(* catalog.get_course_runs() of a row the queryset yields: the override of
   CorporatePartnerCatalog, or FlexibleCatalogModel's base implementation. *)
catalog_get_course_runsPlainEmpty(c, user, cache, rs, ro) ==
    IF c \in PlainCatalogs
    THEN [value |-> {}, cache |-> cache]
    ELSE get_course_runs(CatalogTable[c], user, cache, rs, ro)

catalog_get_course_runs(c, user, cache, rs, ro) ==
    IF c \in PlainCatalogs
    THEN [value |-> PlatformCourses, cache |-> cache]
    ELSE get_course_runs(CatalogTable[c], user, cache, rs, ro)

(* for catalog in catalogs: try: ids.update(catalog.get_course_runs()...);
   fails are the catalogs whose get_course_runs() raises in this call. *)
RECURSIVE aggregate(_, _, _, _, _, _, _)
aggregate(catalogs, k, user, fails, acc, rs, ro) ==
    IF k > Len(catalogs) \/ acc.raised
    THEN acc
    ELSE LET c == catalogs[k]
             r == catalog_get_course_runs(c, user, acc.cache, rs, ro)
         IN  IF c \in fails
             THEN aggregate(catalogs, k + 1, user, fails, catalog_failed(acc, c), rs, ro)
             ELSE aggregate(catalogs, k + 1, user, fails,
                            [acc EXCEPT !.ids = @ \cup r.value, !.cache = r.cache,
                                        !.consulted = @ \cup {c}],
                            rs, ro)

allowed_course_ids_for_current_user(catalogs, user, skip_cache, fails, acache, rcache, rs, ro) ==
    LET key == cache_key(user)
        acc == aggregate(catalogs, 1, user, fails,
                         [ids |-> {}, cache |-> rcache, consulted |-> {}, raised |-> FALSE],
                         rs, ro)
    IN  IF ~skip_cache /\ acache[key] # <<>>
        THEN [raised |-> FALSE, value |-> acache[key][1].ids, hit |-> TRUE,
              consulted |-> {}, acache |-> acache, rcache |-> rcache]
        ELSE IF acc.raised
        THEN [raised |-> TRUE, value |-> {}, hit |-> FALSE,
              consulted |-> acc.consulted, acache |-> acache, rcache |-> acc.cache]
        ELSE [raised |-> FALSE, value |-> acc.ids, hit |-> FALSE,
              consulted |-> acc.consulted,
              acache |-> [acache EXCEPT ![key] = <<[ids |-> acc.ids, by |-> user.id]>>],
              rcache |-> acc.cache]

(* A request of user u served by worker p calls
   allowed_course_ids_for_current_user(skip_cache). *)
CallAllowed(p, u, skip_cache, fails) ==
    LET r == allowed_course_ids_for_current_user(CatalogSeq, UserObject(u), skip_cache, fails,
                                                 allowedCache, regexCache[p], rules, roster)
    IN  /\ ret' = [op |-> "allowed", ok |-> ~r.raised, proc |-> p, user |-> u,
                   skip_cache |-> skip_cache, fails |-> fails, value |-> r.value,
                   hit |-> r.hit, consulted |-> r.consulted,
                   before |-> allowedCache[cache_key(UserObject(u))]]
        /\ allowedCache' = r.acache
        /\ regexCache' = [regexCache EXCEPT ![p] = r.rcache]
        /\ UNCHANGED <<rules, roster>>
        /\ CatUnchanged

(* The entry of a key reaches its TTL. *)
Expire(key) ==
    /\ allowedCache[key] # <<>>
    /\ allowedCache' = [allowedCache EXCEPT ![key] = <<>>]
    /\ ret' = [op |-> "expire", ok |-> TRUE, proc |-> 0, catalog |-> 0]
    /\ UNCHANGED <<rules, roster, regexCache>>
    /\ CatUnchanged

(* Two learners and anonymous visitors; the roster of the private catalog
   changes between the calls. *)
InitAggregate ==
    /\ IdleMainCat
    /\ users = [u \in Users |->
                  [email |-> IF u = 1 THEN <<"a">> ELSE <<"b">>,
                   is_staff |-> FALSE, is_superuser |-> FALSE]]
    /\ rules = {}
    /\ roster = {}
    /\ regexCache = [p \in Procs |-> EmptyCache]
    /\ allowedCache = [k \in CacheKeys |-> <<>>]

NextAggregate ==
    \/ \E u \in Users, state \in {"none", "active", "inactive"} : LearnerSet(1, u, state)
    \/ \E u \in {Anonymous} \cup Users, skip_cache \in BOOLEAN, fails \in SUBSET Catalogs :
         CallAllowed(1, u, skip_cache, fails)
    \/ \E key \in CacheKeys : Expire(key)

SpecAggregate == InitAggregate /\ [][NextAggregate]_vars

(* A request of user u served by worker p calls
   allowed_course_ids_for_current_user(skip_cache=True) while the table of
   FlexibleCatalogModel holds the rows `catalogs`; no catalog raises. *)
CallAllowedOver(p, u, catalogs) ==
    LET r == allowed_course_ids_for_current_user(catalogs, UserObject(u), TRUE, {},
                                                 allowedCache, regexCache[p], rules, roster)
    IN  /\ ret' = [op |-> "allowed_over", ok |-> ~r.raised, proc |-> p, user |-> u,
                   catalogs |-> catalogs, value |-> r.value]
        /\ allowedCache' = r.acache
        /\ regexCache' = [regexCache EXCEPT ![p] = r.rcache]
        /\ UNCHANGED <<rules, roster>>
        /\ CatUnchanged

(* The contents of the FlexibleCatalogModel table, in queryset order. *)
CatalogRows == {<<>>, <<1, 2>>, <<3>>, <<1, 2, 3>>, <<3, 1>>}

(* Users of every kind and anonymous visitors; the rules and the roster of
   the private catalog change between the calls. *)
InitPlain ==
    /\ IdleMainCat
    /\ users \in {[u \in Users |->
                     IF u = 1
                     THEN [email |-> e, is_staff |-> FALSE, is_superuser |-> FALSE]
                     ELSE [email |-> <<"b">>, is_staff |-> s, is_superuser |-> ~s]]
                  : e \in {<<"a">>, <<>>}, s \in BOOLEAN}
    /\ rules = {}
    /\ roster = {}
    /\ regexCache = [p \in Procs |-> EmptyCache]
    /\ allowedCache = [k \in CacheKeys |-> <<>>]

NextPlain ==
    \/ \E raw \in RuleInputs : RuleSave(1, 1, 1, raw)
    \/ \E state \in {"none", "active", "inactive"} : LearnerSet(1, 1, state)
    \/ \E u \in {Anonymous} \cup Users, catalogs \in CatalogRows : CallAllowedOver(1, u, catalogs)

SpecPlain == InitPlain /\ [][NextPlain]_vars

----------------------------------------------------------------------------
(* A transaction that edits the regex rules (the admin and the API run the
   save inside transaction.atomic) next to readers. post_save / post_delete
   fire inside the transaction, at the save, so the cache is cleared before
   the commit. loc[p].view is the table as the transaction of worker p sees
   it (the committed rows and its own writes); a reader on another connection
   sees the committed rows (READ COMMITTED). The lru_cache of a worker
   process is shared by the threads it serves requests with. *)

TxnUnchanged ==
    UNCHANGED <<users, db, nextId, held, txn, snapshot, pending, events, enrollments,
                lms, now, authVars, roster, allowedCache>>

NoView == [view |-> {}]

RuleTxnBegin(p) ==
    /\ \A q \in Procs : pc[q] = "idle"
    /\ pc' = [pc EXCEPT ![p] = "open"]
    /\ loc' = [loc EXCEPT ![p] = [view |-> rules]]
    /\ ret' = [op |-> "begin", ok |-> TRUE, proc |-> p, catalog |-> 0]
    /\ UNCHANGED <<rules, regexCache>>
    /\ TxnUnchanged

(* save() of a rule inside the transaction: clean(), the write, post_save. *)
RuleTxnSave(p, id, c, raw) ==
    LET cl == clean(raw)
        others == {r \in loc[p].view : r.id # id}
    IN  /\ pc[p] = "open"
        /\ IF cl.ok
           THEN /\ loc' = [loc EXCEPT ![p].view =
                              others \cup {[id |-> id, catalog |-> c, regex |-> cl.regex]}]
                /\ Invalidate(p)
           ELSE UNCHANGED <<loc, regexCache>>
        /\ ret' = [op |-> "rule_save", ok |-> cl.ok, proc |-> p, catalog |-> c]
        /\ UNCHANGED <<rules, pc>>
        /\ TxnUnchanged

(* delete() of a rule inside the transaction: the write, post_delete. *)
RuleTxnDelete(p, id) ==
    /\ pc[p] = "open"
    /\ \E r \in loc[p].view :
         /\ r.id = id
         /\ loc' = [loc EXCEPT ![p].view = @ \ {r}]
         /\ ret' = [op |-> "rule_delete", ok |-> TRUE, proc |-> p, catalog |-> r.catalog]
    /\ Invalidate(p)
    /\ UNCHANGED <<rules, pc>>
    /\ TxnUnchanged

RuleTxnCommit(p) ==
    /\ pc[p] = "open"
    /\ rules' = loc[p].view
    /\ pc' = [pc EXCEPT ![p] = "idle"]
    /\ loc' = [loc EXCEPT ![p] = NoView]
    /\ ret' = [op |-> "commit", ok |-> TRUE, proc |-> p, catalog |-> 0]
    /\ UNCHANGED regexCache
    /\ TxnUnchanged

RuleTxnRollback(p) ==
    /\ pc[p] = "open"
    /\ pc' = [pc EXCEPT ![p] = "idle"]
    /\ loc' = [loc EXCEPT ![p] = NoView]
    /\ ret' = [op |-> "rollback", ok |-> TRUE, proc |-> p, catalog |-> 0]
    /\ UNCHANGED <<rules, regexCache>>
    /\ TxnUnchanged

(* The transaction of worker p calls compiled_email_regexes_for_catalog(c):
   the query runs on the transaction's connection. *)
CallCompiledInTxn(p, c) ==
    LET r == compiled_email_regexes_for_catalog(regexCache[p], loc[p].view, c)
    IN  /\ pc[p] = "open"
        /\ ret' = [op |-> "compiled_in_txn", ok |-> TRUE, proc |-> p, catalog |-> c,
                   value |-> r.value]
        /\ regexCache' = [regexCache EXCEPT ![p] = r.cache]
        /\ UNCHANGED <<rules, pc, loc>>
        /\ TxnUnchanged

(* One worker process: the thread of the transaction and the threads of the
   readers. *)
InitRuleTxn ==
    /\ users = [u \in Users |-> [email |-> <<>>, is_staff |-> FALSE, is_superuser |-> FALSE]]
    /\ db = <<>>
    /\ nextId = 1
    /\ held = NoInstance
    /\ txn = "none"
    /\ snapshot = <<>>
    /\ pending = <<>>
    /\ events = <<>>
    /\ enrollments = {}
    /\ lms = {}
    /\ now = 1
    /\ ret = NoRet
    /\ IdleAuth
    /\ pc = [p \in Procs |-> "idle"]
    /\ loc = [p \in Procs |-> NoView]
    /\ rules = {}
    /\ roster = {}
    /\ regexCache = [p \in Procs |-> EmptyCache]
    /\ allowedCache = <<>>

NextRuleTxn ==
    \/ RuleTxnBegin(1)
    \/ \E c \in Catalogs, raw \in RuleInputs : RuleTxnSave(1, 1, c, raw)
    \/ RuleTxnDelete(1, 1)
    \/ RuleTxnCommit(1)
    \/ RuleTxnRollback(1)
    \/ \E c \in Catalogs : CallCompiledInTxn(1, c)
    \/ \E c \in Catalogs : CallCompiled(1, c)

SpecRuleTxn == InitRuleTxn /\ [][NextRuleTxn]_vars

----------------------------------------------------------------------------
(* api/v1/tasks.py: the bulk imports, Celery tasks in autocommit. A task
   reads its CSV row by row, an iteration of the loop taking the next row
   the reader yields: pc is the task's position, loc its locals (n counts
   the rows read). A
   cell of a row is a string, None when the row is shorter than the header
   (the restval of csv.DictReader), or Absent when the header has no such
   column. Entries of created and failed keep the number of their row. *)

MaxRows == 2

Absent == <<"absent">>

(* row.get(key, default) *)
row_get(row, key, default) == IF row[key] = Absent THEN default ELSE row[key]

(* ("true", "1", "yes", "y", "t") *)
ActiveWords == {<<"t", "r", "u", "e">>, <<"1">>, <<"y", "e", "s">>, <<"y">>, <<"t">>}

(* auth_user.username *)
UsernameOf(u) == IF u = 1 THEN <<"a">> ELSE <<"b">>

(* django.core.validators.validate_email, as far as the rows here go: one
   "@" between a non-empty user part and a non-empty domain, no blanks. *)
validate_email(e) ==
    \E i \in 2..(Len(e) - 1) :
        /\ e[i] = "@"
        /\ \A j \in 1..Len(e) : e[j] # " " /\ (j # i => e[j] # "@")

(* The body of the loop of bulk_upload_learners for row number k. *)
learner_row(row, k, catalog_id, us, ro) ==
    LET username == row_get(row, "username", None)
        email == row_get(row, "email", None)
        a == row_get(row, "active", <<"T", "r", "u", "e">>)
        active == Lower(Strip(a)) \in ActiveWords
        found == IF Truthy(username)
                 THEN {u \in Users : UsernameOf(u) = username}
                 ELSE UsersByEmail(us, email)
        user == CHOOSE u \in found : TRUE
        old == {l \in ro : l.catalog = catalog_id /\ l.user = user}
    IN  IF a = None
        THEN [out |-> "raised", roster |-> ro, entry |-> [row |-> k, error |-> "AttributeError"]]
        ELSE IF Falsy(username) /\ Falsy(email)
        THEN [out |-> "failed", roster |-> ro,
              entry |-> [row |-> k, error |-> "Missing username/email in row"]]
        ELSE IF found = {}
        THEN [out |-> "failed", roster |-> ro, entry |-> [row |-> k, error |-> "User not found"]]
        ELSE IF Cardinality(found) > 1
        THEN [out |-> "raised", roster |-> ro, entry |-> [row |-> k, error |-> "MultipleObjectsReturned"]]
        ELSE [out |-> "created",
              roster |-> (ro \ old) \cup {[catalog |-> catalog_id, user |-> user, active |-> active]},
              entry |-> [row |-> k, user_id |-> user, active |-> active]]

(* The body of the loop of bulk_upload_invitations for row number k. *)
invitation_row(row, k, cc, d, us, id, t) ==
    LET e1 == row_get(row, "email", None)
        e2 == row_get(row, "invite_email", None)
        raw_email == Lower(Strip(IF Truthy(e1) THEN e1 ELSE IF Truthy(e2) THEN e2 ELSE <<>>))
        res == create_invitation(cc, raw_email, d, us, id, t)
    IN  IF raw_email = <<>>
        THEN [out |-> "failed", res |-> Failed(NoInstance, d),
              entry |-> [row |-> k, error |-> "Empty email"]]
        ELSE IF ~validate_email(raw_email)
        THEN [out |-> "failed", res |-> Failed(NoInstance, d),
              entry |-> [row |-> k, error |-> "Invalid email format"]]
        ELSE IF ~res.ok
        THEN [out |-> "failed", res |-> res, entry |-> [row |-> k, error |-> "str(exc)"]]
        ELSE [out |-> "created", res |-> res,
              entry |-> [row |-> k, id |-> res.inst.id, created_now |-> res.created]]

BulkUnchanged ==
    UNCHANGED <<users, held, txn, snapshot, pending, now, authVars, rules, regexCache,
                allowedCache>>

(* The task takes the next row: the exception of a row that raises leaves
   the loop and the task. *)
Record(out, entry) ==
    /\ pc' = IF out = "raised" THEN "raised" ELSE pc
    /\ loc' = [loc EXCEPT !.n = @ + 1,
                          !.created = IF out = "created" THEN Append(@, entry) ELSE @,
                          !.failed = IF out = "failed" THEN Append(@, entry) ELSE @]
    /\ ret' = [op |-> "row", ok |-> out # "raised", task |-> pc, out |-> out, entry |-> entry]

LearnersRow(row) ==
    /\ pc = "learners"
    /\ loc.n < MaxRows
    /\ \E r \in {learner_row(row, loc.n + 1, loc.target, users, roster)} :
           /\ roster' = r.roster
           /\ Record(r.out, r.entry)
    /\ UNCHANGED <<db, nextId, events, enrollments, lms>>
    /\ BulkUnchanged

InvitationsRow(row) ==
    /\ pc = "invitations"
    /\ loc.n < MaxRows
    /\ \E r \in {invitation_row(row, loc.n + 1, loc.target, db, users, nextId, now)} :
       \E st \in {run_and_clear_commit_hooks(r.res.hooks,
                    [events |-> events, enrollments |-> enrollments, lms |-> lms],
                    NoInstance, TRUE)} :
           /\ (r.out = "created" /\ r.res.created) => nextId <= MaxInv
           /\ db' = r.res.db
           /\ nextId' = IF r.out = "created" /\ r.res.created THEN nextId + 1 ELSE nextId
           /\ events' = st.events
           /\ enrollments' = st.enrollments
           /\ lms' = st.lms
           /\ Record(r.out, r.entry)
    /\ UNCHANGED roster
    /\ BulkUnchanged

(* The reader is exhausted: return {"created": created, "failed": failed} *)
BulkReturn ==
    /\ pc \in {"learners", "invitations"}
    /\ pc' = "returned"
    /\ ret' = [op |-> "return", ok |-> TRUE, task |-> pc, created |-> loc.created,
               failed |-> loc.failed]
    /\ UNCHANGED <<db, nextId, events, enrollments, lms, roster, loc>>
    /\ BulkUnchanged

LearnerRows ==
    [username : {None, <<"a">>, <<"b">>, <<"z">>},
     email : {Absent, <<>>, <<"a", "@", "b">>},
     active : {Absent, None, <<" ", "Y">>, <<"n">>}]

InvitationRows ==
    [email : {None, <<>>, <<" ", "A", "@", "b">>, <<"z", "@", "b">>, <<"a", "b">>},
     invite_email : {Absent, <<"a", "@", "b">>}]

InitBulk ==
    /\ users = [u \in Users |->
                  [email |-> IF u = 1 THEN <<"a", "@", "b">> ELSE <<"b", "@", "b">>,
                   is_staff |-> FALSE]]
    /\ db = <<>>
    /\ nextId = 1
    /\ held = NoInstance
    /\ txn = "none"
    /\ snapshot = <<>>
    /\ pending = <<>>
    /\ events = <<>>
    /\ enrollments = {}
    /\ lms = {}
    /\ now = 1
    /\ ret = NoRet
    /\ IdleAuth
    /\ rules = {}
    /\ roster \in {{}, {[catalog |-> 1, user |-> 1, active |-> FALSE]}}
    /\ regexCache = <<>>
    /\ allowedCache = <<>>
    /\ pc \in {"learners", "invitations"}
    /\ loc = [n |-> 0, target |-> 1, created |-> <<>>, failed |-> <<>>]

NextBulk ==
    \/ \E row \in LearnerRows : LearnersRow(row)
    \/ \E row \in InvitationRows : InvitationsRow(row)
    \/ BulkReturn

SpecBulk == InitBulk /\ [][NextBulk]_vars

----------------------------------------------------------------------------
(* can_user_act_on_invitation as a function of its two arguments *)

AuthEmails == {None, <<>>, <<" ">>, <<"a">>, <<"A">>, <<" ", "a", " ">>, <<"b">>}

(* request.user: an account, or AnonymousUser (no id, no email attribute). *)
AuthActors ==
    {[id |-> i, email |-> e, is_staff |-> st, is_superuser |-> su, is_authenticated |-> TRUE] :
        i \in Users, e \in AuthEmails \ {None}, st \in BOOLEAN, su \in BOOLEAN}
    \cup {[id |-> 0, email |-> None, is_staff |-> FALSE, is_superuser |-> FALSE,
           is_authenticated |-> FALSE]}

AuthInvitations ==
    {[NoInstance EXCEPT !.id = 1, !.cc = 1, !.status = SENT, !.user = u, !.invite_email = e] :
        u \in {0} \cup Users, e \in AuthEmails}

IdleMain ==
    /\ users = [u \in Users |-> [email |-> <<>>, is_staff |-> FALSE]]
    /\ db = <<>>
    /\ nextId = 1
    /\ held = NoInstance
    /\ txn = "none"
    /\ snapshot = <<>>
    /\ pending = <<>>
    /\ events = <<>>
    /\ enrollments = {}
    /\ lms = {}
    /\ now = 1
    /\ ret = NoRet

InitAuth ==
    /\ IdleMain
    /\ IdleRace
    /\ IdleCat
    /\ authUser \in AuthActors
    /\ authInv \in AuthInvitations
    /\ authOut = "idle"

AuthCall ==
    /\ authOut = "idle"
    /\ authOut' = IF can_user_act_on_invitation(authUser, authInv) THEN "true" ELSE "false"
    /\ UNCHANGED <<authUser, authInv, mainVars, raceVars, catVars>>

NextAuth == AuthCall

SpecAuth == InitAuth /\ [][NextAuth]_vars

----------------------------------------------------------------------------
(* Claims *)

(* Two strings are the same email: after trimming and lower-casing both are
   non-empty and equal, character by character. *)
SameEmail(a, b) ==
    /\ a # None /\ b # None
    /\ Strip(a) # <<>> /\ Strip(b) # <<>>
    /\ Len(Strip(a)) = Len(Strip(b))
    /\ \A k \in 1..Len(Strip(a)) : LowerChar(Strip(a)[k]) = LowerChar(Strip(b)[k])

(* C8: can_user_act_on_invitation is true for every staff or superuser actor;
   otherwise, on an invitation with a bound user, exactly when the actor's id
   is the bound user's id (also when the actor's email equals invite_email);
   otherwise exactly when the actor's email and invite_email are the same
   non-empty email after trimming and lower-casing. *)
C8_CanActRule ==
    authOut # "idle" =>
        ((authOut = "true") <=>
            \/ authUser.is_staff \/ authUser.is_superuser
            \/ /\ ~authUser.is_staff /\ ~authUser.is_superuser
               /\ authInv.user # 0
               /\ authUser.id = authInv.user
            \/ /\ ~authUser.is_staff /\ ~authUser.is_superuser
               /\ authInv.user = 0
               /\ SameEmail(authUser.email, authInv.invite_email))

(* A non-staff actor whose email is invite_email is refused on an invitation
   bound to another user. *)
C8_Witness ==
    /\ authOut = "false"
    /\ ~authUser.is_staff /\ ~authUser.is_superuser
    /\ authInv.user # 0 /\ authInv.user # authUser.id
    /\ SameEmail(authUser.email, authInv.invite_email)

(* C1: in every reachable state each persisted invitation has status SENT
   iff accepted_at and declined_at are both null, ACCEPTED iff accepted_at is
   set and declined_at is null, DECLINED iff declined_at is set and
   accepted_at is null. *)
C1_StatusTimestamps ==
    \A i \in DOMAIN db :
        /\ db[i].status \in Statuses
        /\ (db[i].status = SENT) <=> (db[i].accepted_at = 0 /\ db[i].declined_at = 0)
        /\ (db[i].status = ACCEPTED) <=> (db[i].accepted_at # 0 /\ db[i].declined_at = 0)
        /\ (db[i].status = DECLINED) <=> (db[i].declined_at # 0 /\ db[i].accepted_at = 0)

(* A decline through an object loaded before another request accepted the
   invitation was refused by the table; the row stays ACCEPTED. *)
C1_Witness ==
    /\ ret.op = "apply_status" /\ ~ret.ok /\ ret.status = DECLINED
    /\ held.id \in DOMAIN db
    /\ held.status = DECLINED /\ held.declined_at # 0
    /\ db[held.id].status = ACCEPTED /\ db[held.id].accepted_at # 0

(* C2: apply_status(inv, ACCEPTED) called twice in a row on the same
   invitation object: the second call leaves the persisted row as the first
   call left it (status, accepted_at, declined_at, status_changed_at, user).
   Time may pass between the two calls; nothing else happens. *)
C2_AcceptTwiceSameRow ==
    [][(/\ ret.op = "apply_status" /\ ret.ok /\ ret.status = ACCEPTED
        /\ ret'.op = "apply_status" /\ ret'.ok /\ ret'.status = ACCEPTED
        /\ ret.id \in DOMAIN db)
       => (ret.id \in DOMAIN db' /\ db'[ret.id] = db[ret.id])]_vars

EventCount(ev, kind, i) ==
    Cardinality({k \in 1..Len(ev) : ev[k].kind = kind /\ ev[k].id = i})

(* The step is an accept request (a request changes no clock). *)
AcceptRequest == ret'.op = "view" /\ ret'.status = ACCEPTED /\ now' = now

(* C3: an accept request by the user whose account email is the invitation's
   invite_email (character for character), on an invitation that is unbound
   or bound to that user, succeeds and leaves the
   invitation bound to the user and ACCEPTED, accepted_at being the time of
   the first accept; the ACCEPTED event is emitted by the first accept only,
   and there is exactly one local enrollment row for (user, catalog_course).
   By induction this is the claim for any number of repeated accepts. *)
C3_RepeatedAccept ==
    [][(/\ AcceptRequest
        /\ ret'.id \in DOMAIN db
        /\ users[ret'.actor].email = db[ret'.id].invite_email
        /\ db[ret'.id].user \in {0, ret'.actor})
       => LET i == ret'.id
              u == ret'.actor
              first == db[i].status # ACCEPTED
          IN  /\ ret'.ok
              /\ db'[i].user = u
              /\ db'[i].status = ACCEPTED
              /\ db'[i].accepted_at = (IF first THEN now ELSE db[i].accepted_at)
              /\ EventCount(events', "ACCEPTED", i)
                    = EventCount(events, "ACCEPTED", i) + (IF first THEN 1 ELSE 0)
              /\ Cardinality({e \in enrollments' : e.user = u /\ e.cc = db[i].cc}) = 1]_vars

Delivered == SubSeq(events', Len(events) + 1, Len(events'))
Kinds(seq) == [k \in 1..Len(seq) |-> seq[k].kind]

(* The events the claim expects of one save: CREATED for a new row, else
   UPDATED, followed by ACCEPTED (DECLINED) iff the status persisted before
   the save differs from the new status and the new status is ACCEPTED
   (DECLINED). *)
ExpectedOfSave(sv) ==
    IF sv.created THEN <<"CREATED">>
    ELSE <<"UPDATED">> \o
         (IF sv.old # sv.new /\ sv.new = ACCEPTED THEN <<"ACCEPTED">>
          ELSE IF sv.old # sv.new /\ sv.new = DECLINED THEN <<"DECLINED">>
          ELSE <<>>)

RECURSIVE ExpectedOfSaves(_)
ExpectedOfSaves(svs) ==
    IF svs = <<>> THEN <<>> ELSE ExpectedOfSave(Head(svs)) \o ExpectedOfSaves(Tail(svs))

(* C4: every save of an existing invitation emits UPDATED, and ACCEPTED
   (DECLINED) in addition iff the status persisted before the save differs
   from the new status and the new status is ACCEPTED (DECLINED): the events
   delivered by a call outside a transaction are those of its save, and the
   events delivered by a commit are those of the saves of the transaction,
   in order. *)
C4_EventsOfSaves ==
    [][/\ (now' = now /\ txn = "none" /\ txn' = "none")
            => Kinds(Delivered) = ExpectedOfSaves(ret'.saved)
       /\ (txn = "open" /\ ret'.op = "commit")
            => Kinds(Delivered) = ExpectedOfSaves(Saved(pending))]_vars

(* The rows of committed transactions. *)
Committed == IF txn = "open" THEN snapshot ELSE db

(* C5: while the enclosing transaction is open nothing is delivered and the
   workflow does not run (events, local and external enrollments only change
   at its commit); a rollback delivers nothing; and every event ever
   delivered is about a row of a committed transaction. *)
C5_EventsAfterCommit ==
    [][/\ (txn = "open" /\ ret'.op # "commit")
            => (events' = events /\ enrollments' = enrollments /\ lms' = lms)
       /\ \A k \in 1..Len(events') : events'[k].id \in DOMAIN Committed']_vars

(* A transaction that created an invitation was rolled back: the row is
   gone and nothing was delivered. *)
C5_Witness ==
    /\ ret.op = "rollback"
    /\ nextId > 1
    /\ db = <<>>
    /\ events = <<>> /\ enrollments = {} /\ pending = <<>>

CreateOp(r) == r.op \in {"create", "bulk"}

(* The same catalog_course and the same email up to letter case and
   surrounding whitespace. *)
SameKey(a, b) == a[1] = b[1] /\ Lower(Strip(a[2])) = Lower(Strip(b[2]))

RowsOfKey(d, k) ==
    {j \in DOMAIN d : d[j].cc = k[1] /\ Lower(Strip(d[j].invite_email)) = Lower(Strip(k[2]))}

(* C7: a create (API or bulk row) that directly follows a successful create
   for the same catalog_course and the same email up to letter case and
   surrounding whitespace succeeds, creates nothing, returns the id the
   first call returned and leaves exactly one row for that key. *)
C7_SecondCreateSameRow ==
    [][(/\ CreateOp(ret) /\ ret.ok
        /\ CreateOp(ret') /\ now' = now
        /\ SameKey(ret.input, ret'.input))
       => (/\ ret'.ok
           /\ ~ret'.created
           /\ ret'.id = ret.id
           /\ DOMAIN db' = DOMAIN db
           /\ RowsOfKey(db', ret'.input) = {ret.id})]_vars

(* A create for " A " style input came back with the one existing row of
   "a", having created nothing. *)
C7_Witness ==
    /\ CreateOp(ret) /\ ret.ok /\ ~ret.created
    /\ ret.input[2] = <<"A", " ">>
    /\ RowsOfKey(db, ret.input) = {ret.id}
    /\ db[ret.id].invite_email = <<"a">>

(* C9: an accept or decline request by an actor for whom
   can_user_act_on_invitation is false is rejected and changes nothing: the
   rows, the events and the enrollments stay as they were. *)
C9_RejectedChangesNothing ==
    [][(/\ ret'.op = "view" /\ now' = now
        /\ ret'.id \in DOMAIN db
        /\ ~can_user_act_on_invitation(ActorOf(users, ret'.actor), InstanceOf(db, ret'.id)))
       => (/\ ~ret'.ok
           /\ db' = db
           /\ events' = events
           /\ enrollments' = enrollments
           /\ lms' = lms)]_vars

(* A non-staff actor who is neither the bound user nor the addressee was
   rejected on a SENT invitation. *)
C9_Witness ==
    /\ ret.op = "view" /\ ~ret.ok
    /\ ret.id \in DOMAIN db
    /\ ~can_user_act_on_invitation(ActorOf(users, ret.actor), InstanceOf(db, ret.id))
    /\ db[ret.id].status = SENT
    /\ db[ret.id].user # 0

(* C10: once an invitation is bound to a user, no operation changes the
   bound user to a different account. *)
C10_BoundUserLocked ==
    [][\A i \in DOMAIN db :
         db[i].user # 0 => (i \in DOMAIN db' /\ db'[i].user = db[i].user)]_vars

RaceWaiting(p) ==
    \/ pc[p] = "insert" /\ InsertBlocked(p)
    \/ pc[p] = "backfill" /\ ~loc[p].created /\ loc[p].user # 0 /\ loc[p].obj.user = 0
       /\ UpdateBlocked(p)

(* The account the create would bind is not already bound to another
   invitation of the course. *)
AddresseeFree(p) ==
    LET u == FirstUserIExact(users, loc[p].email)
    IN  \A j \in DOMAIN db :
          (u # 0 /\ db[j].user = u /\ db[j].cc = loc[p].cc)
            => db[j].invite_email = loc[p].email

(* C6: two concurrent create calls for the same (catalog_course, email),
   the account of the email not being bound to another invitation of the
   course: neither caller fails or waits for ever, at most one row of the
   key is ever committed, and when both have returned exactly one row of
   the key exists and both callers hold that row. *)
C6_ConcurrentCreate ==
    (\A p \in Procs : AddresseeFree(p)) =>
    /\ \A p \in Procs : pc[p] # "failed"
    /\ (\E p \in Procs : pc[p] \notin Final)
         => \E p \in Procs : pc[p] \notin Final /\ ~RaceWaiting(p)
    /\ \A p \in Procs : Cardinality(RowsOfKey(db, <<loc[p].cc, loc[p].raw>>)) <= 1
    /\ (\A p \in Procs : pc[p] = "done")
         => \A p \in Procs : RowsOfKey(db, <<loc[p].cc, loc[p].raw>>) = {loc[p].obj.id}

(* Both calls returned; one of them lost the unique-constraint race (its
   INSERT raised IntegrityError) and came back with the row the other made. *)
C6_Witness ==
    /\ \A p \in Procs : pc[p] = "done"
    /\ \E p \in Procs, q \in Procs :
        /\ loc[p].integrity_error /\ ~loc[p].created
        /\ loc[q].created
        /\ loc[p].obj.id = loc[q].obj.id
        /\ loc[p].raw # loc[q].raw


(* The step is an accept or decline request in which apply_status_as_user
   meets a binding conflict: the invitation is unbound, the actor's email is
   invite_email after trimming and lower-casing, and another invitation of
   the same catalog_course is bound to the actor. *)
BindingConflict ==
    /\ ret'.op = "view" /\ now' = now
    /\ ret'.id \in DOMAIN db
    /\ db[ret'.id].user = 0
    /\ SameEmail(users[ret'.actor].email, db[ret'.id].invite_email)
    /\ \E j \in DOMAIN db \ {ret'.id} :
          db[j].cc = db[ret'.id].cc /\ db[j].user = ret'.actor

(* C11: in apply_status_as_user, when binding the actor would put two
   invitations of the catalog_course on the same user, the binding is
   skipped and the transition is persisted: the call returns normally, the
   row has the requested status with its timestamps and is not bound to the
   actor. *)
C11_ConflictSkipsBinding ==
    [][BindingConflict
       => LET i == ret'.id
          IN  /\ ret'.ok
              /\ db'[i].status = ret'.status
              /\ db'[i].user # ret'.actor
              /\ cpcea_status_timestamp_consistency(db'[i])]_vars


RowTimestamps(r) == <<r.accepted_at, r.declined_at, r.status_changed_at>>

(* C12 as stated: the status changes only from SENT to ACCEPTED or DECLINED,
   or by an administrative reset to SENT; a step that keeps the status
   changes no timestamp. *)
C12_OnlyFromSent ==
    [][\A i \in DOMAIN db :
         /\ db'[i].status # db[i].status
              => \/ db[i].status = SENT
                 \/ db'[i].status = SENT /\ ret'.op = "admin"
         /\ db'[i].status = db[i].status
              => RowTimestamps(db'[i]) = RowTimestamps(db[i])]_vars

(* C12 amended: the status changes only by an accept or decline request or
   an administrative mark, to the status the call asks for (SENT by an
   administrative mark only), whatever the status before: ACCEPTED to
   DECLINED and DECLINED to ACCEPTED happen directly. The change stamps the
   timestamp of the new status, clears the other and sets
   status_changed_at; a successful call leaves the status it asked for; a
   step that keeps the status changes no timestamp. *)
C12_AnyTransition ==
    [][\A i \in DOMAIN db :
         /\ db'[i].status # db[i].status
              => /\ ret'.op \in {"view", "admin"} /\ ret'.ok /\ ret'.id = i
                 /\ db'[i].status = ret'.status
                 /\ ret'.status = SENT => ret'.op = "admin"
                 /\ db'[i].accepted_at = (IF ret'.status = ACCEPTED THEN now ELSE 0)
                 /\ db'[i].declined_at = (IF ret'.status = DECLINED THEN now ELSE 0)
                 /\ db'[i].status_changed_at = now
         /\ db'[i].status = db[i].status
              => RowTimestamps(db'[i]) = RowTimestamps(db[i])
         /\ (ret'.op \in {"view", "admin"} /\ now' = now /\ ret'.ok /\ ret'.id = i)
              => db'[i].status = ret'.status]_vars

(* An invitation was accepted and then declined with no reset to SENT in
   between: its DECLINED event follows its ACCEPTED event directly but for
   the UPDATED event of the decline. *)
C12_Witness ==
    \E k \in 1..Len(events) :
        /\ k + 2 <= Len(events)
        /\ events[k].kind = "ACCEPTED"
        /\ events[k + 1].kind = "UPDATED" /\ events[k + 1].id = events[k].id
        /\ events[k + 2].kind = "DECLINED" /\ events[k + 2].id = events[k].id
        /\ db[events[k].id].status = DECLINED
        /\ db[events[k].id].accepted_at = 0


(* C13: when no user account has the invitation's invite_email, an accept,
   decline or mark_sent (by a request that is allowed to act, or by an
   administrative mark) raises and persists nothing: no row changes, no
   event is emitted and no enrollment is made. *)
C13_NoAccountNothingPersisted ==
    [][(/\ ret'.op \in {"view", "admin"} /\ now' = now
        /\ ret'.id \in DOMAIN db
        /\ UsersByEmail(users, db[ret'.id].invite_email) = {})
       => (/\ ~ret'.ok
           /\ db' = db
           /\ events' = events
           /\ enrollments' = enrollments
           /\ lms' = lms)]_vars

(* An administrative mark on an ACCEPTED invitation whose bound user has
   since changed email failed and left the row ACCEPTED and bound. *)
C13_Witness ==
    /\ ret.op = "admin" /\ ~ret.ok /\ ret.status # ACCEPTED
    /\ ret.id \in DOMAIN db
    /\ UsersByEmail(users, db[ret.id].invite_email) = {}
    /\ db[ret.id].status = ACCEPTED
    /\ db[ret.id].user # 0


RECURSIVE SumCreated(_, _)
SumCreated(ps, u) ==
    IF ps = {} THEN 0
    ELSE LET p == CHOOSE x \in ps : TRUE
         IN  loc[p].ncreated[u] + SumCreated(ps \ {p}, u)

(* C14: calls of ensure_enrollment_exists for the same (user,
   catalog_course), one after the other or concurrently: a step of a call
   changes no row that exists; there is never more than one row for the
   pair; a call that returns holds the one row of the pair; created=True is
   reported by at most one call for the pair; no call raises. *)
C14_OneEnrollment ==
    [][/\ pc' # pc => \A e \in enrollments : e \in enrollments'
       /\ \A u \in Users, cc \in CatalogCourses :
            Cardinality(EnrollmentsOf(enrollments', u, cc)) <= 1
       /\ \A p \in Procs :
            (pc[p] # "idle" /\ pc'[p] = "idle")
              => \E e \in enrollments' :
                    /\ EnrollmentsOf(enrollments', loc'[p].user, loc'[p].cc) = {e}
                    /\ loc'[p].obj = e.id
       /\ \A u \in Users : (SumCreated(Procs, u))' <= 1
       /\ \A p \in Procs : pc'[p] # "failed"]_vars

(* Two concurrent calls for one pair: one inserted the row, the other's
   INSERT raised and it returned the same row with created=False; a later
   call found the row deactivated by an administrator and left it so. *)
C14_Witness ==
    /\ \A p \in Procs : pc[p] = "idle" /\ loc[p].calls > 0
    /\ \E p \in Procs : \E q \in Procs \ {p} :
        /\ loc[p].user = loc[q].user
        /\ loc[p].ncreated[loc[p].user] = 1
        /\ loc[q].ncreated[loc[q].user] = 0
        /\ loc[q].calls = MaxCalls
        /\ loc[p].obj = loc[q].obj
        /\ \E e \in enrollments : e.id = loc[p].obj /\ ~e.active


(* The ACCEPTED events the step delivers. *)
AcceptedDelivered == {k \in 1..Len(Delivered) : Delivered[k].kind = "ACCEPTED"}

(* C15: when the accept workflow runs (an ACCEPTED event of a bound
   invitation is delivered) and its external step fails (the platform holds
   no enrollment for the pair afterwards), the local enrollment row is
   persisted and the invitation is ACCEPTED; no step removes or changes a
   local enrollment row, so nothing is rolled back, and a later run of the
   workflow leaves one local row for the pair. *)
C15_ExternalFailureKeepsLocal ==
    [][/\ \A e \in enrollments : e \in enrollments'
       /\ \A k \in AcceptedDelivered :
            LET ev == Delivered[k]
            IN  (ev.user_id # 0 /\ <<ev.user_id, ev.catalog_course_id>> \notin lms')
                  => /\ Cardinality(EnrollmentsOf(enrollments', ev.user_id,
                                                  ev.catalog_course_id)) = 1
                     /\ db'[ev.id].status = ACCEPTED
                     /\ db'[ev.id].accepted_at # 0]_vars

(* The workflow ran twice for the invitation (accepted, reset or declined,
   accepted again), the external step failed both times, and there is one
   local enrollment row. *)
C15_Witness ==
    /\ \E k \in 1..Len(events) : \E l \in (k + 1)..Len(events) :
          /\ events[k].kind = "ACCEPTED" /\ events[l].kind = "ACCEPTED"
          /\ events[k].id = events[l].id
          /\ events[k].user_id = 1 /\ events[l].user_id = 1
    /\ lms = {}
    /\ Cardinality(enrollments) = 1
    /\ \E i \in DOMAIN db : db[i].status = ACCEPTED /\ db[i].user = 1


(* The events of one invitation, in the order of their delivery. *)
EventsOf(ev, i) == SelectSeq(ev, LAMBDA e : e.id = i)

(* C16: the events of an invitation are emitted in the order of its writes:
   CREATED before every UPDATED, each ACCEPTED or DECLINED directly after
   the UPDATED of its save, and the events of a save before those of any
   later save: when a worker delivers the events of its transaction, no
   earlier transaction's events are still to be delivered. *)
C16_EventOrder ==
    [][/\ \A i \in DOMAIN db' :
            LET ev == EventsOf(events', i)
            IN  \A k \in 1..Len(ev) :
                  /\ ev[k].kind = "UPDATED"
                       => \E l \in 1..(k - 1) : ev[l].kind = "CREATED"
                  /\ ev[k].kind \in {"ACCEPTED", "DECLINED"}
                       => k > 1 /\ ev[k - 1].kind = "UPDATED"
       /\ \A p \in Procs :
            (pc[p] = "committed" /\ pc'[p] = "idle")
              => \A q \in Procs \ {p} :
                    ~(pc[q] = "committed" /\ loc[q].seq < loc[p].seq)]_vars


(* The email matches the rule in full: trimmed and lower-cased it has as
   many characters as the rule between its anchors, and each one is the
   rule's character (in either case) or stands under a ".". *)
FullyMatches(email, rule) ==
    LET e == Strip(Lower(email))
        body == SubSeq(rule, 2, Len(rule) - 1)
    IN  /\ email # <<>>
        /\ Len(e) = Len(body)
        /\ \A i \in 1..Len(body) : body[i] = "." \/ LowerChar(body[i]) = e[i]

(* The eligibility rule, from the tables as they are. *)
Eligible(u, c) ==
    LET user == UserObject(u)
    IN  \/ user.is_staff \/ user.is_superuser
        \/ CatalogTable[c].is_public
        \/ /\ user.is_authenticated
           /\ \/ \E l \in roster : l.catalog = c /\ l.user = u /\ l.active
              \/ \E r \in rules : r.catalog = c /\ FullyMatches(user.email, r.regex)

(* C17: can_user_see_catalog_courses is true exactly when the user is staff
   or superuser, or the catalog is public, or the user is authenticated and
   has an active roster row or an email that fully matches a rule of the
   catalog; course_runs_for_user returns all the catalog's courses when it
   is true and none otherwise. *)
C17_Eligibility ==
    /\ ret.op = "see" => ret.value = Eligible(ret.user, ret.catalog)
    /\ ret.op = "runs" =>
         ret.value = IF Eligible(ret.user, ret.catalog)
                     THEN CatalogTable[ret.catalog].courses
                     ELSE {}

(* C18: compiled_email_regexes_for_catalog(c) returns the set compiled from
   the rules the catalog has at the call: the same set while no rule
   changes, the new set at the first call after a change. *)
C18_CompiledIsCurrent ==
    ret.op = "compiled" => ret.value = {r.regex : r \in {x \in rules : x.catalog = ret.catalog}}


(* The course ids the catalogs outside fails yield to the user of the last
   call. *)
YieldedByOthers ==
    UNION {get_course_runs(CatalogTable[c], UserObject(ret.user), regexCache[ret.proc],
                           rules, roster).value : c \in Catalogs \ ret.fails}

(* C19: when get_course_runs() of a catalog raises during the aggregation,
   allowed_course_ids_for_current_user does not raise and returns the union
   of the ids the other catalogs yield. *)
C19_FailingCatalogSkipped ==
    (ret.op = "allowed" /\ ~ret.hit /\ ret.fails # {})
      => /\ ret.ok
         /\ ret.value = YieldedByOthers

(* The private catalog, which the user is on the roster of, failed: only the
   public catalog's ids came back. *)
C19_Witness ==
    /\ ret.op = "allowed" /\ ~ret.hit /\ ret.fails = {1} /\ ret.user = 1
    /\ \E l \in roster : l.catalog = 1 /\ l.user = 1 /\ l.active
    /\ ret.value = CatalogTable[2].courses

(* C20: with skip_cache false and an entry under the user's key the stored
   set is returned and no catalog is consulted; otherwise the union is
   recomputed from the catalogs and replaces the entry; an entry is only
   ever returned to the user it was computed for (anonymous visitors share
   one). *)
C20_CachePerUser ==
    ret.op = "allowed" =>
      LET key == cache_key(UserObject(ret.user))
      IN  IF ~ret.skip_cache /\ ret.before # <<>>
          THEN /\ ret.value = ret.before[1].ids
               /\ ret.consulted = {}
               /\ allowedCache[key] = ret.before
               /\ ret.before[1].by = ret.user
          ELSE /\ ret.consulted = Catalogs
               /\ ret.value = YieldedByOthers
               /\ allowedCache[key] = <<[ids |-> ret.value, by |-> ret.user]>>

(* User 2 is served its own stored set, which the roster no longer gives,
   while another set is stored for user 1. *)
C20_Witness ==
    /\ ret.op = "allowed" /\ ret.hit /\ ret.user = 2 /\ ret.fails = {}
    /\ ret.value # UNION {get_course_runs(CatalogTable[c], UserObject(2), regexCache[1],
                                          rules, roster).value : c \in Catalogs}
    /\ allowedCache["1"] # <<>>
    /\ allowedCache["1"] # allowedCache["2"]
    /\ allowedCache["1"][1].ids # ret.value


(* C22: apply_status sets status_changed_at when, and only when, the status
   asked for differs from the persisted status of the invitation: a call
   that asks for the status the row has leaves status_changed_at as it was,
   also when the same object is passed to apply_status again. The object
   passed carries the status the row has. *)
C22_StatusChangedAtRule ==
    [][(/\ ret'.op = "apply_status" /\ ret'.ok /\ now' = now
        /\ ret'.id \in DOMAIN db
        /\ held.id = ret'.id /\ held.status = db[ret'.id].status)
       => LET i == ret'.id
          IN  /\ i \in DOMAIN db'
              /\ IF db[i].status # ret'.status
                 THEN db'[i].status_changed_at = now
                 ELSE db'[i].status_changed_at = db[i].status_changed_at]_vars


(* The CREATED and UPDATED events of a delivery, one per save. *)
MainEvents(seq) == SelectSeq(seq, LAMBDA e : e.kind \in {"CREATED", "UPDATED"})

(* C28: the events a commit delivers are those of the saves of the
   transaction as each save wrote the invitation: the k-th CREATED/UPDATED
   event carries the status the k-th save wrote, each ACCEPTED (DECLINED)
   event carries status ACCEPTED (DECLINED), and ACCEPTED or DECLINED is
   emitted for a save iff that save changed the persisted status to it;
   also when one object is saved several times before the commit. *)
C28_EventsReflectTheirSave ==
    [][(txn = "open" /\ ret'.op = "commit")
         => LET main == MainEvents(Delivered)
            IN  /\ Len(main) = Len(pending)
                /\ \A k \in 1..Len(main) : main[k].status = pending[k].new
                /\ \A k \in 1..Len(Delivered) :
                     /\ Delivered[k].kind = "ACCEPTED" => Delivered[k].status = ACCEPTED
                     /\ Delivered[k].kind = "DECLINED" => Delivered[k].status = DECLINED
                /\ Kinds(Delivered) = ExpectedOfSaves(Saved(pending))]_vars


(* The rows a create for <<catalog_course, raw email>> finds, and the users
   that have the email. *)
RowsFound(d, input) ==
    {j \in DOMAIN d : d[j].cc = input[1] /\ d[j].invite_email = Lower(Strip(input[2]))}
UsersWith(input) == {u \in Users : IExact(users[u].email, Lower(Strip(input[2])))}

(* C25: a create (API or bulk row) that finds a row of the (catalog_course,
   email) without a bound user while a user has the email changes nothing of
   the row but its user field, which it sets to that user when the call
   succeeds: status, accepted_at, declined_at and status_changed_at stay, no
   row is added, and no ACCEPTED or DECLINED event is emitted. *)
C25_BackfillOnlyUser ==
    [][(/\ CreateOp(ret') /\ now' = now /\ ret'.input # <<>>
        /\ UsersWith(ret'.input) # {}
        /\ \E j \in RowsFound(db, ret'.input) : db[j].user = 0)
       => /\ DOMAIN db' = DOMAIN db
          /\ \A j \in DOMAIN db :
               IF j \in RowsFound(db, ret'.input)
               THEN /\ db'[j] = [db[j] EXCEPT !.user = db'[j].user]
                    /\ db'[j].user \in (IF ret'.ok THEN UsersWith(ret'.input) ELSE {0})
               ELSE db'[j] = db[j]
          /\ \A k \in 1..Len(Delivered) : Delivered[k].kind \notin {"ACCEPTED", "DECLINED"}]_vars

(* A create found the row of an invitation sent before the account existed
   and bound it, at a later time than the row's status_changed_at. *)
C25_Witness ==
    /\ CreateOp(ret) /\ ret.ok /\ ~ret.created /\ ret.saved # <<>>
    /\ ret.id \in DOMAIN db
    /\ db[ret.id].user # 0
    /\ db[ret.id].status_changed_at < now
    /\ events[Len(events)].kind = "UPDATED" /\ events[Len(events)].id = ret.id


(* The step is an accept or decline request. *)
ActRequest == ret'.op = "view" /\ now' = now

(* C26: a request of a non-staff actor on an unbound invitation whose
   invite_email is the actor's email, which the email rule of
   can_user_act_on_invitation admits, succeeds and leaves the invitation
   bound to the actor with the status asked for. The emails are equal
   character for character, the plainest case of the rule. *)
C26_AdmittedActorIsBound ==
    [][(/\ ActRequest
        /\ ret'.id \in DOMAIN db
        /\ ~users[ret'.actor].is_staff
        /\ db[ret'.id].user = 0
        /\ Truthy(Strip(db[ret'.id].invite_email))
        /\ users[ret'.actor].email = db[ret'.id].invite_email
        /\ can_user_act_on_invitation(ActorOf(users, ret'.actor), InstanceOf(db, ret'.id)))
       => /\ ret'.ok
          /\ db'[ret'.id].user = ret'.actor
          /\ db'[ret'.id].status = ret'.status]_vars


(* C27: a staff actor who is not the invitee accepts an unbound invitation:
   when the request succeeds the invitation is ACCEPTED and bound to the
   account that has the invite_email, and that account is enrolled; the
   staff actor is not bound to the invitation, and no local or external
   enrollment of the staff actor is made. *)
C27_StaffAcceptsForInvitee ==
    [][(/\ AcceptRequest
        /\ ret'.id \in DOMAIN db
        /\ users[ret'.actor].is_staff
        /\ db[ret'.id].user = 0
        /\ ~SameEmail(users[ret'.actor].email, db[ret'.id].invite_email))
       => LET i == ret'.id
              a == ret'.actor
          IN  /\ db'[i].user # a
              /\ \A e \in enrollments' \ enrollments : e.user # a
              /\ \A e \in lms' \ lms : e[1] # a
              /\ ret'.ok =>
                   /\ db'[i].status = ACCEPTED
                   /\ db'[i].user # 0
                   /\ users[db'[i].user].email = db[i].invite_email
                   /\ \E e \in enrollments' : e.user = db'[i].user /\ e.cc = db[i].cc]_vars

(* The staff user accepted an invitation sent to an email that user 1 took
   later: it is bound to user 1, who is the only one enrolled. *)
C27_Witness ==
    /\ ret.op = "view" /\ ret.ok /\ ret.status = ACCEPTED /\ ret.actor = 2
    /\ users[2].is_staff
    /\ ret.id \in DOMAIN db
    /\ db[ret.id].user = 1 /\ db[ret.id].status = ACCEPTED
    /\ ~SameEmail(users[2].email, db[ret.id].invite_email)
    /\ events[Len(events)].kind = "ACCEPTED" /\ events[Len(events) - 1].kind = "UPDATED"
    /\ events[Len(events) - 1].id = ret.id
    /\ \A k \in 1..(Len(events) - 2) : events[k].id = ret.id => events[k].user_id = 0
    /\ {e.user : e \in enrollments} = {1}


(* C29: a request that moves an invitation to DECLINED, or back to SENT,
   changes no enrollment: the local rows stay as they are, active flag
   included, and so do the external enrollments. *)
C29_DeclineKeepsEnrollment ==
    [][(\E i \in DOMAIN db :
           /\ i \in DOMAIN db'
           /\ db'[i].status # db[i].status
           /\ db'[i].status \in {DECLINED, SENT})
       => (enrollments' = enrollments /\ lms' = lms)]_vars

(* An accepted invitation, whose user is enrolled, was declined: the
   DECLINED event is the last one and the enrollment is still there. *)
C29_Witness ==
    /\ ret.op = "view" /\ ret.ok /\ ret.status = DECLINED
    /\ ret.id \in DOMAIN db
    /\ db[ret.id].status = DECLINED
    /\ events[Len(events)].kind = "DECLINED" /\ events[Len(events)].id = ret.id
    /\ \E e \in enrollments : e.user = db[ret.id].user /\ e.cc = db[ret.id].cc /\ e.active


(* C24: every ACCEPTED event runs the enrollment workflow for the
   invitation's bound user and catalog course, and with the external
   platform available the local and the external enrollment both exist when
   the workflow ends. Checked on accept requests served while the platform is
   available. *)
C24_AcceptedEnrollsBoth ==
    [][(ret'.op = "view" /\ now' = now)
       => \A k \in (Len(events) + 1)..Len(events') :
            LET ev == events'[k]
            IN  ev.kind = "ACCEPTED"
                => /\ ev.user_id # 0
                   /\ \E e \in enrollments' :
                        e.user = ev.user_id /\ e.cc = ev.catalog_course_id /\ e.active
                   /\ <<ev.user_id, ev.catalog_course_id>> \in lms']_vars


(* C21: the bulk learner and bulk invitation imports never raise: a row that
   fails is recorded in failed, the other rows are still processed, and when
   the task returns every data row has exactly one entry in created or in
   failed. *)
C21_EveryRowAccounted ==
    /\ pc # "raised"
    /\ pc = "returned"
       => \A k \in 1..loc.n :
            Cardinality({i \in 1..Len(loc.created) : loc.created[i].row = k})
            + Cardinality({i \in 1..Len(loc.failed) : loc.failed[i].row = k}) = 1


(* C23: whenever no transaction on the regex rules is in flight, a cached
   compiled rule set of a catalog equals the set compiled from the committed
   rules of that catalog, whatever readers ran next to the transactions and
   whether these committed or rolled back. *)
C23_CacheMatchesCommitted ==
    (\A p \in Procs : pc[p] = "idle")
    => \A p \in Procs, c \in Catalogs :
         regexCache[p][c] # <<>> => regexCache[p][c][1] = CompileRules(rules, c)


(* What a row of the catalog table yields for the user of the last call. *)
YieldOfRow(c) ==
    IF c \in PlainCatalogs
    THEN PlatformCourses
    ELSE IF can_user_see_catalog_courses(UserObject(ret.user), CatalogTable[c],
                                         regexCache[ret.proc], rules, roster).value
    THEN CatalogTable[c].courses
    ELSE {}

(* C30: allowed_course_ids_for_current_user with skip_cache=true returns the
   union over all catalog rows of the catalog's courses when the row is a
   corporate catalog that can_user_see_catalog_courses admits the user to,
   nothing when it does not, and every course of the platform when the row is
   a plain FlexibleCatalogModel, for every user and for anonymous visitors. *)
C30_AggregateIsUnion ==
    ret.op = "allowed_over"
      => /\ ret.ok
         /\ ret.value = UNION {YieldOfRow(ret.catalogs[k]) : k \in 1..Len(ret.catalogs)}

(* An anonymous visitor, whom the private catalog does not admit, is given
   every course of the platform because the table holds a plain row. *)
C30_Witness ==
    /\ ret.op = "allowed_over" /\ ret.user = Anonymous /\ ret.catalogs = <<1, 2, 3>>
    /\ YieldOfRow(1) = {}
    /\ ret.value = PlatformCourses
    /\ ret.value # CatalogTable[2].courses

====
